---- MODULE Spec2Model ----
(***************************************************************************)
(* State-machine model of the viaNexus agent SDK:                          *)
(*   - the per-turn LLM/tool orchestration loop of ask_question            *)
(*     (Anthropic, OpenAI and Gemini adapters),                            *)
(*   - the universal memory subsystem (in-memory store, file store,        *)
(*     session manager, memory facade),                                    *)
(*   - the persistent tool-channel overlay (PersistentAnthropicClient).    *)
(* Each part has its own specification; the variables of the other parts   *)
(* stay at their initial values.                                           *)
(***************************************************************************)
EXTENDS Integers, Sequences, FiniteSets, TLC

VARIABLES
    \* ---- orchestration loop (clients/*_client.py) ----
    adapter,            \* which adapter class runs the loop
    max_history_length, \* self.max_history_length
    messages,           \* self.messages, the conversation buffer
    pc,                 \* position of ask_question: ready / send / dispatch / done
    tool_uses,          \* tool invocations of the reply being dispatched
    response_content,   \* the local text accumulator
    returned,           \* value returned by the last finished ask_question
    rounds,             \* tool rounds of the running turn
    turns,              \* turns started so far
    base,               \* history: the buffer when the running turn started
    question,           \* history: the utterance of the running turn
    replyLog,           \* history: the provider replies of the running turn
    dispatchLog,        \* history: per round, <<invocation, outcome, result>> records
    \* ---- memory subsystem (memory/*.py) ----
    store_kind,         \* class of the shared store: "memory" or "file"
    store,              \* InMemoryStore: messages, sessions, user_sessions;
                        \* FileMemoryStore: the files of messages_dir and sessions_dir
    clock,              \* datetime.utcnow()
    uuid_count,         \* uuid.uuid4() calls so far
    memory_session_id,  \* per client: self.memory_session_id
    user_id,            \* per client: self.user_id
    provider_name,      \* per client: self.provider_name
    session_initialized,\* per client: self._session_initialized
    active_sessions,    \* per client: self.session_manager._active_sessions
    saved,              \* history: per session, the messages passed to save_message
                        \* since the session was last deleted
    created,            \* history: per session id, the user it was created under
    deleted,            \* history: the sessions the last step deleted, with the
                        \* number of messages each held
    \* ---- persistent overlay (PersistentAnthropicClient) ----
    connection_active,  \* self._connection_active
    mcp_session_id,     \* self._mcp_session_id, 0 for None
    session,            \* self.session: the transport it runs over, 0 for None
    persistent_exit_stack, \* the contexts entered on self._persistent_exit_stack
    abandoned,          \* contexts of a discarded exit stack whose close raised
    transports_opened,  \* streaming-HTTP contexts opened so far
    alive,              \* the transports on which the server still answers
    delegated,          \* turns delegated to ask_question
    lastCall,           \* history: the last call of the overlay and what it did
    \* ---- ask_question with memory (the arguments of the running call) ----
    maintain_history,   \* maintain_history
    use_memory,         \* use_memory
    load_from_memory,   \* load_from_memory
    hist_len,           \* history: messages stored in the session when the
                        \* call started
    \* ---- session manager calls (memory/session_manager.py) ----
    generated,          \* history: the ids generate_session_id has returned
    clones,             \* history: the clone_session calls that returned
    \* ---- calls of the entry points and of the pure functions ----
    method,             \* the method or function that was called last
    arg,                \* its argument
    out,                \* what it returned or raised
    \* ---- concurrent create_session calls (memory/session_manager.py) ----
    tasks,              \* the asyncio tasks running create_session
    session_locks       \* SessionManager._session_locks

loopVars == <<adapter, max_history_length, messages, pc, tool_uses,
              response_content, returned, rounds, turns, base, question,
              replyLog, dispatchLog>>

memVars == <<store_kind, store, clock, uuid_count, memory_session_id, user_id,
             provider_name, session_initialized, active_sessions, saved,
             created, deleted>>

connVars == <<connection_active, mcp_session_id, session,
              persistent_exit_stack, abandoned, transports_opened, alive,
              delegated, lastCall>>

turnVars == <<maintain_history, use_memory, load_from_memory, hist_len>>

sessVars == <<generated, clones>>

callVars == <<method, arg, out>>

taskVars == <<tasks, session_locks>>

vars == <<loopVars, memVars, connVars, turnVars, sessVars, callVars, taskVars>>

\* No entry point or function of the last group was called
CallIdle == method = "" /\ arg = <<>> /\ out = <<>>

\* No create_session task was started
TaskIdle == tasks = <<>> /\ session_locks = {}

(***************************************************************************)
(* Bounds of the model.                                                    *)
(***************************************************************************)
MaxRounds == 1      \* tool rounds the provider may request in one turn
MaxTurns == 1       \* turns asked on one client

DefaultMaxHistoryLength == 50

(***************************************************************************)
(* Sequence helpers.                                                       *)
(***************************************************************************)
RECURSIVE Concat(_)
Concat(ss) == IF ss = <<>> THEN <<>> ELSE Head(ss) \o Concat(Tail(ss))

\* s[-n:] for n >= 0; s[-0:] is s[0:], the whole sequence
LastN(s, n) == IF n = 0 \/ Len(s) <= n THEN s ELSE SubSeq(s, Len(s) - n + 1, Len(s))

(***************************************************************************)
(* Text.  A text is a sequence of tokens; the token " " is white space.    *)
(***************************************************************************)
WS == " "

RECURSIVE LStrip(_)
LStrip(t) == IF t # <<>> /\ Head(t) = WS THEN LStrip(Tail(t)) ELSE t

RECURSIVE RStrip(_)
RStrip(t) == IF t # <<>> /\ t[Len(t)] = WS THEN RStrip(SubSeq(t, 1, Len(t) - 1)) ELSE t

\* str.strip()
Strip(t) == RStrip(LStrip(t))

(***************************************************************************)
(* Content blocks of a provider reply.                                     *)
(*   type  : "text" or "tool_use" (Gemini: a text part / a function_call   *)
(*           part; OpenAI: output text / an entry of tool_calls)           *)
(*   text  : the text of a text block                                      *)
(*   id, name, input : the tool invocation of a tool_use block             *)
(***************************************************************************)
TextBlock(t) == [type |-> "text", text |-> t, id |-> "", name |-> "", input |-> ""]

ToolUseBlock(type, id, name, input) ==
    [type |-> type, text |-> <<>>, id |-> id, name |-> name, input |-> input]

\* Tokens of a stringified tool call and the values the regular expressions
\* of _parse_tool_use_block_string capture from them.
IdValue(tok) == CASE tok = "id='t9'" -> "t9" [] OTHER -> ""
NameValue(tok) == CASE tok = "name='fetch'" -> "fetch" [] OTHER -> ""
TypeValue(tok) == CASE tok = "type='tool_use'" -> "tool_use" [] OTHER -> ""
InputValue(tok) == CASE tok = "input={'symbol': 'V'}" -> "symbol=V" [] OTHER -> ""

\* "ToolUseBlock(" in block.text
ContainsToolUseBlock(t) == \E i \in 1..Len(t) : t[i] = "ToolUseBlock("

\* re.search(r'ToolUseBlock\(([^)]+)\)', text): the positions <<i, j>> of the
\* first "ToolUseBlock(" that is followed, after at least one token other
\* than ")", by ")"; <<0, 0>> when there is no match.
ToolUseBlockMatch(t) ==
    LET Closes(i) == {j \in (i + 1)..Len(t) : t[j] = ")"}
        FirstClose(i) == CHOOSE j \in Closes(i) : \A k \in Closes(i) : j <= k
        Starts == {i \in 1..Len(t) : /\ t[i] = "ToolUseBlock("
                                     /\ Closes(i) # {}
                                     /\ FirstClose(i) > i + 1}
    IN IF Starts = {} THEN <<0, 0>>
       ELSE LET i == CHOOSE i \in Starts : \A k \in Starts : i <= k
            IN <<i, FirstClose(i)>>

\* The first value V(tok) # "" among the tokens of content, "" when none.
FirstValue(content, V(_)) ==
    LET hits == {i \in 1..Len(content) : V(content[i]) # ""}
    IN IF hits = {} THEN ""
       ELSE V(content[CHOOSE i \in hits : \A k \in hits : i <= k])

\* _parse_tool_use_block_string: the dictionary, or found = FALSE for None.
ParseToolUseBlockString(t) ==
    LET m == ToolUseBlockMatch(t)
        content == IF m[1] = 0 THEN <<>> ELSE SubSeq(t, m[1] + 1, m[2] - 1)
        id == FirstValue(content, IdValue)
        name == FirstValue(content, NameValue)
        type == FirstValue(content, TypeValue)
    IN [found |-> m[1] # 0 /\ id # "" /\ name # "" /\ type # "",
        type |-> type, id |-> id, name |-> name,
        input |-> FirstValue(content, InputValue)]

\* One iteration of the loop of _process_content_blocks_for_tool_use: the
\* block that stands at position i afterwards.
ProcessBlock(b) ==
    IF b.type = "text" /\ ContainsToolUseBlock(b.text)
       /\ ParseToolUseBlockString(b.text).found
    THEN LET d == ParseToolUseBlockString(b.text)
         IN ToolUseBlock(d.type, d.id, d.name, d.input)
    ELSE b

\* ... and what the iteration adds to response_content.
BlockResponseContent(b) ==
    IF b.type = "text" /\ ~ContainsToolUseBlock(b.text) THEN b.text ELSE <<>>

\* _process_content_blocks_for_tool_use: (processed_blocks, response_content)
ProcessContentBlocks(blocks) ==
    [blocks |-> [i \in 1..Len(blocks) |-> ProcessBlock(blocks[i])],
     text |-> Concat([i \in 1..Len(blocks) |-> BlockResponseContent(blocks[i])])]

\* [b for b in content_blocks if getattr(b, "type", None) == "tool_use"]
ToolUses(blocks) == SelectSeq(blocks, LAMBDA b : b.type = "tool_use")

\* Gemini: response.text, the concatenated text parts
GeminiResponseText(blocks) ==
    Concat([i \in 1..Len(blocks) |->
              IF blocks[i].type = "text" THEN blocks[i].text ELSE <<>>])

\* Gemini: _extract_text_only_content keeps text parts with text and
\* function_call parts
ExtractTextOnlyContent(blocks) ==
    SelectSeq(blocks, LAMBDA b : (b.type = "text" /\ b.text # <<>>)
                                 \/ b.type = "tool_use")

(***************************************************************************)
(* Entries of the conversation buffer.                                     *)
(***************************************************************************)
Entry(role, kind, text, blocks, results) ==
    [role |-> role, kind |-> kind, text |-> text, blocks |-> blocks,
     results |-> results]

\* {"role": "user", "content": question}
UserEntry(q) == Entry("user", "text", q, <<>>, <<>>)

\* {"role": "assistant", "content": content_blocks}; Gemini: role "model"
AssistantBlocksEntry(role, blocks) == Entry(role, "blocks", <<>>, blocks, <<>>)

\* OpenAI: {"role": "assistant", "content": assistant_content}
AssistantTextEntry(t) == Entry("assistant", "text", t, <<>>, <<>>)

\* {"role": "user", "content": result_blocks}
ToolResultEntry(results) == Entry("user", "tool_result", <<>>, <<>>, results)

\* _trim_history
TrimHistory(buf, maxlen) == IF Len(buf) > maxlen THEN LastN(buf, maxlen) ELSE buf

(***************************************************************************)
(* Tool dispatch.  A tool outcome is what session.call_tool does for one   *)
(* invocation: kind "ok" (content returned), "errcontent" (content         *)
(* returned with isError set) or "raise" (an exception with message text). *)
(***************************************************************************)
Outcome(kind, text) == [kind |-> kind, text |-> text]

ToolOutcomes == {Outcome("ok", <<"42">>),
                 Outcome("errcontent", <<"unknown", "symbol">>),
                 Outcome("raise", <<"timeout">>)}

ToolResult(id, name, key, text) ==
    [tool_use_id |-> id, name |-> name, key |-> key, text |-> text]

\* AnthropicClient._execute_tool_calls, one invocation
AnthropicToolResult(tub, o) ==
    IF o.kind = "raise"
    THEN ToolResult(tub.id, "", "content", <<"Error:">> \o o.text)
    ELSE ToolResult(tub.id, "", "content", o.text)

\* OpenAIClient._execute_tool_calls, one invocation
OpenAIToolResult(call, o) ==
    IF o.kind = "raise"
    THEN ToolResult(call.id, "", "content",
                    <<"Error", "calling", "tool", call.name>> \o o.text)
    ELSE ToolResult(call.id, "", "content", o.text)

\* GeminiClient._execute_tool_calls, one invocation
GeminiToolResult(tool_call, o) ==
    IF o.kind = "raise"
    THEN ToolResult("", tool_call.name, "error",
                    <<"Tool", "execution", "failed:">> \o o.text)
    ELSE ToolResult("", tool_call.name, "result", o.text)

\* _execute_tool_calls of adapter a: the invocations are dispatched serially,
\* os[i] is the outcome of the i-th one.
ExecuteToolCalls(a, uses, os) ==
    [i \in 1..Len(uses) |->
        CASE a = "anthropic" -> AnthropicToolResult(uses[i], os[i])
          [] a = "openai" -> OpenAIToolResult(uses[i], os[i])
          [] OTHER -> GeminiToolResult(uses[i], os[i])]

\* How ask_question puts the results of a round into the buffer.
InjectResults(a, buf, results) ==
    IF a = "openai"
    THEN buf \o [i \in 1..Len(results) |->
                   Entry("user", "text", <<"Tool", "result:">> \o results[i].text,
                         <<>>, <<>>)]
    ELSE Append(buf, ToolResultEntry(results))

(***************************************************************************)
(* The provider.  Replies the vendor SDK may return to one request.        *)
(***************************************************************************)
StringifiedToolUse ==
    <<"[", "ToolUseBlock(", "id='t9'", "input={'symbol': 'V'}", "name='fetch'",
      "type='tool_use'", ")", "]">>

ToolReplies ==
    {<<TextBlock(<<"checking">>), ToolUseBlock("tool_use", "t1", "fetch", "symbol=V")>>,
     <<ToolUseBlock("tool_use", "t1", "search", "q=V"),
       ToolUseBlock("tool_use", "t2", "fetch", "symbol=V")>>,
     <<TextBlock(StringifiedToolUse)>>}

TextReplies ==
    {<<TextBlock(<<"done", WS>>)>>,
     <<TextBlock(<<"see", "ToolUseBlock(", "docs">>)>>,
     <<>>}

\* The provider eventually answers with text only: after MaxRounds tool
\* rounds of a turn it requests no further tool.
ProviderReplies(n) == IF n < MaxRounds THEN ToolReplies \cup TextReplies ELSE TextReplies

Adapters == {"anthropic", "openai", "gemini"}

\* config.get("max_history_length", 50): any number the caller configures
HistoryLengths == {0, 3, DefaultMaxHistoryLength}

Questions == {<<"quote", "V">>}

(***************************************************************************)
(* ask_question(question, maintain_history=True, use_memory=False)         *)
(***************************************************************************)
\* The test inverted: the loop leaves when there are tool calls.
LoopExits_Inverted(uses) == uses # <<>>

\* `if not tool_uses: break`
LoopExits(uses) == uses = <<>>

\* What one pass of the `while True` body does with the reply up to the test
\* for tool calls: the buffer, the text added to response_content, and the
\* tool invocations found.
AnthropicReply(buf, r) ==
    LET p == ProcessContentBlocks(r)
    IN [buf |-> Append(buf, AssistantBlocksEntry("assistant", p.blocks)),
        text |-> p.text, uses |-> ToolUses(p.blocks)]

OpenAIReply(buf, r) ==
    LET assistant_content == GeminiResponseText(r)
    IN [buf |-> Append(buf, AssistantTextEntry(assistant_content)),
        text |-> assistant_content, uses |-> ToolUses(r)]

GeminiReply(buf, r) ==
    LET kept == ExtractTextOnlyContent(r)
    IN [buf |-> IF r # <<>> /\ kept # <<>>
                THEN Append(buf, AssistantBlocksEntry("model", kept)) ELSE buf,
        text |-> GeminiResponseText(r),
        uses |-> ToolUses(r)]

ReplyEffect(a, buf, r) ==
    CASE a = "anthropic" -> AnthropicReply(buf, r)
      [] a = "openai" -> OpenAIReply(buf, r)
      [] OTHER -> GeminiReply(buf, r)

\* The user utterance as the adapter puts it into the buffer.
QuestionEntry(a, q) ==
    IF a = "gemini" THEN Entry("user", "blocks", <<>>, <<TextBlock(q)>>, <<>>)
    ELSE UserEntry(q)

\* ask_question up to the first request.
AskQuestion(q) ==
    /\ pc \in {"ready", "done"}
    /\ turns < MaxTurns
    /\ messages' = Append(messages, QuestionEntry(adapter, q))
    /\ response_content' = <<>>
    /\ rounds' = 0
    /\ turns' = turns + 1
    /\ pc' = "send"
    /\ base' = messages
    /\ question' = q
    /\ replyLog' = <<>>
    /\ dispatchLog' = <<>>
    /\ UNCHANGED <<adapter, max_history_length, tool_uses, returned>>

\* One request to the vendor SDK and the handling of its reply r.
ModelReply(r) ==
    /\ pc = "send"
    /\ LET e == ReplyEffect(adapter, messages, r)
       IN /\ response_content' = response_content \o e.text
          /\ replyLog' = Append(replyLog, r)
          /\ IF LoopExits(e.uses)
             THEN /\ messages' = TrimHistory(e.buf, max_history_length)
                  /\ returned' = Strip(response_content')
                  /\ pc' = "done"
                  /\ UNCHANGED tool_uses
             ELSE /\ messages' = e.buf
                  /\ tool_uses' = e.uses
                  /\ pc' = "dispatch"
                  /\ UNCHANGED returned
    /\ UNCHANGED <<adapter, max_history_length, rounds, turns, base, question,
                   dispatchLog>>

\* _execute_tool_calls on the invocations of the reply, and the injection of
\* the results; os[i] is what call_tool does for the i-th invocation.
Dispatch(os) ==
    /\ pc = "dispatch"
    /\ messages' = InjectResults(adapter, messages,
                                 ExecuteToolCalls(adapter, tool_uses, os))
    /\ dispatchLog' = Append(dispatchLog, os)
    /\ rounds' = rounds + 1
    /\ pc' = "send"
    /\ UNCHANGED <<adapter, max_history_length, tool_uses, response_content,
                   returned, turns, base, question, replyLog>>

(***************************************************************************)
(* Memory subsystem: data model (memory/base_memory.py).                   *)
(***************************************************************************)
MaxUuids == 2       \* uuid4 values drawn: message ids and generated session ids
MaxClock == 1       \* days the clock advances

MaxContextMessages == 1000

\* Python's None; for a user id, None or the empty string (both falsy)
None == [none |-> TRUE]
NoUser == ""

\* dict helpers: d[k] = v, d.pop(k, None), d.get(k, default)
Put(d, k, v) == [x \in (DOMAIN d) \cup {k} |-> IF x = k THEN v ELSE d[x]]
Pop(d, k) == [x \in (DOMAIN d) \ {k} |-> d[x]]
Get(d, k, default) == IF k \in DOMAIN d THEN d[k] ELSE default
EmptyDict == [x \in {} |-> None]

\* list.remove(x) when x is in the list: the first occurrence goes
ListRemove(l, x) ==
    LET i == CHOOSE i \in 1..Len(l) : l[i] = x /\ \A k \in 1..(i - 1) : l[k] # x
    IN SubSeq(l, 1, i - 1) \o SubSeq(l, i + 1, Len(l))

\* A session id.  A configured id is a literal; a generated id is the join
\* of the parts SessionManager.generate_session_id puts together.
SessionIdOf(literal, client_type, user, context, timestamp, unique_id, counter) ==
    [literal |-> literal, client_type |-> client_type, user_id |-> user,
     context |-> context, timestamp |-> timestamp, unique_id |-> unique_id, counter |-> counter]

LiteralSessionId(name) == SessionIdOf(name, "", "", "", 0, 0, 0)

\* SessionManager.generate_session_id: "_".join of client type, user,
\* timestamp and uuid, with a counter appended while the id is in
\* _active_sessions.
GenerateSessionId(user, client_type, context, now, uuid, active) ==
    LET id(n) == SessionIdOf("", client_type, user, context, now, uuid, n)
        free == {n \in 0..Cardinality(DOMAIN active) : id(n) \notin DOMAIN active}
    IN id(CHOOSE n \in free : \A k \in free : n <= k)

\* enum MessageRole / MessageType: the member with value v
MessageRoleValues == {"user", "assistant", "system", "tool", "function"}
MessageRole(v) == [enum |-> "MessageRole", value |-> v]

MessageTypeValues == {"text", "tool_call", "tool_result", "image", "audio", "multimodal"}
MessageType(v) == [enum |-> "MessageType", value |-> v]

\* Message content: a str, or a list whose items are SDK content blocks or,
\* once serialised, strings.
StrContent(t) == [type |-> "str", text |-> t, items |-> <<>>]
ListContent(items) == [type |-> "list", text |-> <<>>, items |-> items]

\* str(block) of an SDK content block, as a str item of a list
IdToken(id) == CASE id = "t9" -> "id='t9'" [] OTHER -> "id='t1'"
NameToken(name) == CASE name = "fetch" -> "name='fetch'" [] OTHER -> "name='search'"
InputToken(input) ==
    CASE input = "symbol=V" -> "input={'symbol': 'V'}" [] OTHER -> "input={'q': 'V'}"

BlockStr(b) ==
    [type |-> "str", id |-> "", name |-> "", input |-> "",
     text |-> IF b.type = "text"
              THEN <<"TextBlock(", "text=">> \o b.text \o <<"type='text'", ")">>
              ELSE <<"ToolUseBlock(", IdToken(b.id), InputToken(b.input),
                     NameToken(b.name), "type='tool_use'", ")">>]

\* datetime.isoformat / datetime.fromisoformat
IsoFormat(t) == [iso |-> t]
FromIsoFormat(s) == s.iso

\* UniversalMessage(...) after __post_init__
UniversalMessage(role, content, message_type, timestamp, message_id, session_id, provider, user) ==
    [role |-> role, content |-> content, message_type |-> message_type,
     timestamp |-> timestamp, message_id |-> message_id,
     session_id |-> session_id, provider |-> provider, user_id |-> user]

\* A dict (a tool result block) as an item of a list content
DictItem(r) ==
    [type |-> "dict", id |-> r.tool_use_id, name |-> r.name, input |-> r.key,
     text |-> r.text]

\* json.dumps(..., default=str) on the content: what json cannot encode is
\* replaced by its str(); strings and dicts are encoded as they are
JsonDefaultStr(content) ==
    IF content.type = "str" THEN content
    ELSE ListContent([i \in 1..Len(content.items) |->
                        IF content.items[i].type \in {"str", "dict"}
                        THEN content.items[i]
                        ELSE BlockStr(content.items[i])])

\* repr() of an item of a list content
ItemRepr(x) ==
    CASE x.type = "str" -> <<"'">> \o x.text \o <<"'">>
      [] x.type = "dict" -> <<"{", x.id, x.name, x.input>> \o x.text \o <<"}">>
      [] OTHER -> BlockStr(x).text

\* str(content)
ContentStr(content) ==
    IF content.type = "str" THEN content.text
    ELSE <<"[">> \o Concat([i \in 1..Len(content.items) |->
                               ItemRepr(content.items[i])]) \o <<"]">>

\* UniversalMessage.to_json
ToJson(m) ==
    [role |-> m.role.value, content |-> JsonDefaultStr(m.content),
     message_type |-> m.message_type.value,
     timestamp |-> IsoFormat(m.timestamp), message_id |-> m.message_id,
     session_id |-> m.session_id, provider |-> m.provider,
     user_id |-> m.user_id]

\* UniversalMessage.from_json
FromJson(line) ==
    UniversalMessage(MessageRole(line.role), line.content,
                     MessageType(line.message_type),
                     FromIsoFormat(line.timestamp), line.message_id,
                     line.session_id, line.provider, line.user_id)

\* ConversationSession(...) after __post_init__
ConversationSession(session_id, user, client_type, created_at, last_activity, message_count) ==
    [session_id |-> session_id, user_id |-> user, client_type |-> client_type,
     created_at |-> created_at, last_activity |-> last_activity,
     message_count |-> message_count]

\* ConversationSession.to_dict, written as JSON / from_dict
SessionToDict(s) ==
    [session_id |-> s.session_id, user_id |-> s.user_id,
     client_type |-> s.client_type, created_at |-> IsoFormat(s.created_at),
     last_activity |-> IsoFormat(s.last_activity),
     message_count |-> s.message_count]

SessionFromDict(d) ==
    ConversationSession(d.session_id, d.user_id, d.client_type,
                        FromIsoFormat(d.created_at),
                        FromIsoFormat(d.last_activity), d.message_count)

\* ConversationSession.update_activity
UpdateActivity(s, now) == [s EXCEPT !.last_activity = now]

(***************************************************************************)
(* The stores (memory/stores/memory_memory.py, file_memory.py).            *)
(* A store state st has the fields                                         *)
(*   messages      : InMemoryStore.messages, session id -> messages;       *)
(*                   FileMemoryStore: messages_dir, session id -> the      *)
(*                   lines of <session id>.jsonl                           *)
(*   sessions      : InMemoryStore.sessions; FileMemoryStore: sessions_dir,*)
(*                   session id -> the content of <session id>.json        *)
(*   user_sessions : InMemoryStore.user_sessions                           *)
(* Every store call is one atomic step.                                    *)
(***************************************************************************)
EmptyStore == [messages |-> EmptyDict, sessions |-> EmptyDict,
               user_sessions |-> EmptyDict]

\* The value save_message returns
SaveMessageOk(m) == m.session_id # None

\* A store that files every message under the session it saw first.
SaveMessage_Misfiled(kind, st, m) ==
    LET sid == IF DOMAIN st.messages = {} THEN m.session_id
               ELSE CHOOSE s \in DOMAIN st.messages : TRUE
    IN [st EXCEPT !.messages =
           Put(@, sid, Append(Get(@, sid, <<>>),
                              IF kind = "memory" THEN m ELSE ToJson(m)))]

\* A store that writes the history of the session anew with each message.
SaveMessage_Rewrites(kind, st, m) ==
    [st EXCEPT !.messages =
        Put(@, m.session_id, <<IF kind = "memory" THEN m ELSE ToJson(m)>>)]

\* save_message
SaveMessage(kind, st, m) ==
    LET sid == m.session_id
    IN IF ~SaveMessageOk(m) THEN st
       ELSE IF kind = "memory"
       THEN [st EXCEPT
               !.messages = Put(@, sid, Append(Get(@, sid, <<>>), m)),
               !.sessions = IF sid \in DOMAIN @
                            THEN [@ EXCEPT ![sid].message_count = @ + 1]
                            ELSE @]
       ELSE [st EXCEPT
               !.messages = Put(@, sid, Append(Get(@, sid, <<>>), ToJson(m)))]

\* get_conversation_history(session_id, limit) without message_types and
\* before_message_id; limit = 0 stands for None (`if limit:`)
GetConversationHistory(kind, st, sid, limit) ==
    LET stored == Get(st.messages, sid, <<>>)
        all == IF kind = "memory" THEN stored
               ELSE [i \in 1..Len(stored) |-> FromJson(stored[i])]
    IN IF limit # 0 THEN LastN(all, limit) ELSE all

\* save_session
SaveSession(kind, st, s) ==
    IF kind = "memory"
    THEN [st EXCEPT
            !.sessions = Put(@, s.session_id, s),
            !.user_sessions =
                IF s.user_id = NoUser THEN @
                ELSE LET l == Get(@, s.user_id, <<>>)
                     IN Put(@, s.user_id,
                            IF \E i \in 1..Len(l) : l[i] = s.session_id THEN l
                            ELSE Append(l, s.session_id))]
    ELSE [st EXCEPT !.sessions = Put(@, s.session_id, SessionToDict(s))]

\* get_session
GetSession(kind, st, sid) ==
    IF sid \notin DOMAIN st.sessions THEN None
    ELSE IF kind = "memory" THEN st.sessions[sid]
    ELSE SessionFromDict(st.sessions[sid])

\* update_session_activity
UpdateSessionActivity(kind, st, sid, now) ==
    LET s == GetSession(kind, st, sid)
    IN IF s = None THEN st
       ELSE IF kind = "memory"
       THEN [st EXCEPT !.sessions[sid] = UpdateActivity(s, now)]
       ELSE SaveSession(kind, st, UpdateActivity(s, now))

\* A store that deletes the session record only.
DeleteSession_KeepsMessages(kind, st, sid) ==
    [st EXCEPT !.sessions = Pop(@, sid)]

\* delete_session
DeleteSession(kind, st, sid) ==
    IF kind = "memory"
    THEN LET s == Get(st.sessions, sid, None)
         IN [st EXCEPT
               !.messages = Pop(@, sid),
               !.sessions = Pop(@, sid),
               !.user_sessions =
                   IF s # None /\ s.user_id # NoUser /\ s.user_id \in DOMAIN @
                      /\ \E i \in 1..Len(@[s.user_id]) : @[s.user_id][i] = sid
                   THEN [@ EXCEPT ![s.user_id] = ListRemove(@, sid)]
                   ELSE @]
    ELSE [st EXCEPT !.messages = Pop(@, sid), !.sessions = Pop(@, sid)]

\* delete_session for each session of a list, in any order
RECURSIVE DeleteSessions(_, _, _)
DeleteSessions(kind, st, sids) ==
    IF sids = {} THEN st
    ELSE LET sid == CHOOSE s \in sids : TRUE
         IN DeleteSessions(kind, DeleteSession(kind, st, sid), sids \ {sid})

\* cleanup_old_sessions: the sessions it deletes
SessionsToDelete(kind, st, older_than_days, now) ==
    {sid \in DOMAIN st.sessions :
        GetSession(kind, st, sid).last_activity < now - older_than_days}

\* cleanup_old_sessions
CleanupOldSessions(kind, st, older_than_days, now) ==
    DeleteSessions(kind, st, SessionsToDelete(kind, st, older_than_days, now))

\* get_user_sessions(user_id) without limit: the sessions returned (their
\* order, by last_activity, is left out)
GetUserSessions(kind, st, user) ==
    IF kind = "memory"
    THEN LET l == Get(st.user_sessions, user, <<>>)
         IN {st.sessions[l[i]] : i \in {i \in 1..Len(l) : l[i] \in DOMAIN st.sessions}}
    ELSE {GetSession(kind, st, sid) :
            sid \in {sid \in DOMAIN st.sessions :
                       GetSession(kind, st, sid).user_id = user}}

(***************************************************************************)
(* SessionManager (memory/session_manager.py).  cache is _active_sessions: *)
(* session id -> the cached session, of which the session id, the user and  *)
(* the client type are kept.                                               *)
(***************************************************************************)
CachedSession(s) == [session_id |-> s.session_id, user_id |-> s.user_id, client_type |-> s.client_type]

\* SessionManager.create_session(session_id, ...) with force_new = False:
\* raised is set when the store already holds the session
CreateSession(kind, st, cache, sid, user, client_type, now) ==
    IF GetSession(kind, st, sid) # None
    THEN [raised |-> TRUE, created |-> FALSE, store |-> st, cache |-> cache,
          session |-> None]
    ELSE LET s == ConversationSession(sid, user, client_type, now, now, 0)
         IN [raised |-> FALSE, created |-> TRUE,
             store |-> SaveSession(kind, st, s),
             cache |-> Put(cache, sid, CachedSession(s)),
             session |-> CachedSession(s)]

\* SessionManager.get_session: the cache first, then the store
ManagerGetSession(kind, st, cache, sid) ==
    IF sid \in DOMAIN cache THEN [cache |-> cache, session |-> cache[sid]]
    ELSE LET s == GetSession(kind, st, sid)
         IN IF s # None
            THEN [cache |-> Put(cache, sid, CachedSession(s)),
                  session |-> CachedSession(s)]
            ELSE [cache |-> cache, session |-> None]

\* SessionManager.ensure_session_exists
EnsureSessionExists(kind, st, cache, sid, user, client_type, now) ==
    LET g == ManagerGetSession(kind, st, cache, sid)
    IN IF g.session # None
       THEN [raised |-> FALSE, created |-> FALSE, store |-> st,
             cache |-> g.cache, session |-> g.session]
       ELSE CreateSession(kind, st, g.cache, sid, user, client_type, now)

(***************************************************************************)
(* The memory facade of a client (memory/memory_mixin.py).  Clients share  *)
(* one store; each has its own session manager.                            *)
(***************************************************************************)
Clients == {"c1", "c2"}

Users == {"u1", "u2"}

\* How the two clients are constructed: memory_session_id and user_id
ClientConfigs ==
    {[c1 |-> [sid |-> LiteralSessionId("s1"), user |-> "u1"],
      c2 |-> [sid |-> LiteralSessionId("s1"), user |-> "u1"]],
     [c1 |-> [sid |-> LiteralSessionId("s1"), user |-> "u1"],
      c2 |-> [sid |-> LiteralSessionId("s2"), user |-> "u2"]],
     [c1 |-> [sid |-> None, user |-> "u1"],
      c2 |-> [sid |-> LiteralSessionId("s2"), user |-> "u1"]]}

ProviderOf(c) == IF c = "c1" THEN "anthropic" ELSE "openai"

\* The memory facade of client c as one value: the shared store, the
\* client's fields, and the history variables saved and created
MemState(c) ==
    [kind |-> store_kind, store |-> store, now |-> clock,
     uuid_count |-> uuid_count, sid |-> memory_session_id[c],
     user |-> user_id[c], provider |-> provider_name[c],
     initialized |-> session_initialized[c], cache |-> active_sessions[c],
     saved |-> saved, created |-> created]

\* memory_initialize_session on the facade ms: the facade afterwards, the
\* uuids drawn, and whether the session record was created
InitializeSession(ms) ==
    IF ms.initialized
    THEN [ms |-> ms, uuids |-> 0, created |-> FALSE]
    ELSE LET gen == ms.sid = None
             sid == IF gen
                    THEN GenerateSessionId(ms.user, ms.provider, "", ms.now,
                                           ms.uuid_count + 1, ms.cache)
                    ELSE ms.sid
             e == EnsureSessionExists(ms.kind, ms.store, ms.cache, sid,
                                      ms.user, ms.provider, ms.now)
         IN [ms |-> [ms EXCEPT !.store = e.store, !.cache = e.cache,
                               !.sid = sid, !.initialized = ~e.raised,
                               !.uuid_count = @ + (IF gen THEN 1 ELSE 0),
                               !.created = IF e.created
                                           THEN Put(@, sid, ms.user) ELSE @],
             uuids |-> IF gen THEN 1 ELSE 0, created |-> e.created]

\* memory_initialize_session of client c: the store, the client's cache,
\* memory_session_id and _session_initialized afterwards, the uuids drawn,
\* and whether the session record was created
MemoryInitializeSession(c) ==
    LET i == InitializeSession(MemState(c))
    IN [store |-> i.ms.store, cache |-> i.ms.cache, sid |-> i.ms.sid,
        initialized |-> i.ms.initialized, uuids |-> i.uuids,
        created |-> i.created]

\* memory_save_message(role, content, message_type) on the facade ms;
\* message_type "" stands for None.  i is the facade after
\* memory_initialize_session.
SaveMessageIn(ms, role, content, message_type) ==
    CHOOSE saved_ms \in
       {LET valid == role \in MessageRoleValues
            msg_type == IF message_type \in MessageTypeValues THEN message_type
                        ELSE "text"
            m == UniversalMessage(MessageRole(role), content, MessageType(msg_type),
                                  i.now, i.uuid_count + 1, i.sid, i.provider, i.user)
            ok == valid /\ SaveMessageOk(m)
            st1 == IF valid THEN SaveMessage(i.kind, i.store, m) ELSE i.store
            st2 == IF ok THEN UpdateSessionActivity(i.kind, st1, i.sid, i.now)
                   ELSE st1
        IN [i EXCEPT !.store = st2,
                     !.uuid_count = @ + (IF valid THEN 1 ELSE 0),
                     !.saved = IF ok THEN Put(@, i.sid, Append(Get(@, i.sid, <<>>), m))
                               ELSE @]
        : i \in {InitializeSession(ms).ms}} : TRUE

\* memory_load_history(limit=None): the facade afterwards and the messages
\* read from the store
LoadHistoryIn(ms) ==
    LET i == InitializeSession(ms).ms
    IN [ms |-> i,
        messages |-> GetConversationHistory(i.kind, i.store, i.sid,
                                            MaxContextMessages)]

\* memory_switch_session(new_session_id, create_if_not_exists) on the facade
\* ms: the facade afterwards and the value returned
SwitchSessionIn(ms, new_session_id, create_if_not_exists) ==
    LET e == IF create_if_not_exists
             THEN EnsureSessionExists(ms.kind, ms.store, ms.cache,
                                      new_session_id, ms.user, ms.provider,
                                      ms.now)
             ELSE LET g == ManagerGetSession(ms.kind, ms.store, ms.cache,
                                             new_session_id)
                  IN [raised |-> FALSE, created |-> FALSE, store |-> ms.store,
                      cache |-> g.cache, session |-> g.session]
        ok == ~e.raised /\ e.session # None
    IN [ms |-> [ms EXCEPT !.store = e.store, !.cache = e.cache,
                          !.sid = IF ok THEN new_session_id ELSE @,
                          !.initialized = IF ok THEN TRUE ELSE @,
                          !.created = IF e.created
                                      THEN Put(@, new_session_id, ms.user)
                                      ELSE @],
        ok |-> ok]

\* The facade ms becomes the state of client c
SetMemState(c, ms) ==
    /\ store' = ms.store
    /\ uuid_count' = ms.uuid_count
    /\ memory_session_id' = [memory_session_id EXCEPT ![c] = ms.sid]
    /\ session_initialized' = [session_initialized EXCEPT ![c] = ms.initialized]
    /\ active_sessions' = [active_sessions EXCEPT ![c] = ms.cache]
    /\ saved' = ms.saved
    /\ created' = ms.created

\* The inputs of memory_save_message: role and content
SaveInputs ==
    {<<"user", StrContent(<<"A">>)>>,
     <<"assistant", ListContent(<<TextBlock(<<"done">>)>>)>>,
     <<"moderator", StrContent(<<"A">>)>>}


\* The calls memory_save_message(role, content) makes on the session manager
\* and on the store, in the order of the code, and the value it returns.
\* memory_initialize_session returns at once when _session_initialized is
\* set; MessageRole(role) raises for an unknown role, which the handler
\* turns into False.
SaveCalls(ms, role, content) ==
    LET i == InitializeSession(ms).ms
        valid == role \in MessageRoleValues
        ok == valid /\ i.sid # None
    IN [calls |-> (IF ms.initialized THEN <<>> ELSE <<"ensure_session_exists">>)
                  \o (IF valid THEN <<"save_message">> ELSE <<>>)
                  \o (IF ok THEN <<"update_session_activity">> ELSE <<>>),
        at_save |-> i,
        returns |-> ok,
        raises |-> FALSE]
\* memory_save_message(role, content) of client c
MemorySaveMessage(c, role, content) ==
    /\ uuid_count + MemoryInitializeSession(c).uuids + 1 <= MaxUuids
    /\ SetMemState(c, SaveMessageIn(MemState(c), role, content, ""))
    /\ deleted' = EmptyDict
    /\ UNCHANGED <<store_kind, clock, user_id, provider_name>>

\* memory_load_history(convert_to_provider_format=False) of client c
MemoryLoadHistory(c) ==
    /\ uuid_count + MemoryInitializeSession(c).uuids <= MaxUuids
    /\ SetMemState(c, LoadHistoryIn(MemState(c)).ms)
    /\ deleted' = EmptyDict
    /\ UNCHANGED <<store_kind, clock, user_id, provider_name>>

\* memory_clear_session of client c
MemoryClearSession(c) ==
    LET sid == memory_session_id[c]
    IN IF sid = None
       THEN /\ deleted' = EmptyDict
            /\ UNCHANGED <<store_kind, store, clock, uuid_count,
                           memory_session_id, user_id, provider_name,
                           session_initialized, active_sessions, saved, created>>
       ELSE /\ store' = DeleteSession(store_kind, store, sid)
            /\ session_initialized' = [session_initialized EXCEPT ![c] = FALSE]
            /\ saved' = Pop(saved, sid)
            /\ created' = Pop(created, sid)
            /\ deleted' = Put(EmptyDict, sid, Len(Get(store.messages, sid, <<>>)))
            /\ UNCHANGED <<store_kind, clock, uuid_count, memory_session_id,
                           user_id, provider_name, active_sessions>>

\* memory_switch_session(new_session_id, create_if_not_exists) of client c
MemorySwitchSession(c, new_session_id, create_if_not_exists) ==
    /\ SetMemState(c, SwitchSessionIn(MemState(c), new_session_id,
                                      create_if_not_exists).ms)
    /\ deleted' = EmptyDict
    /\ UNCHANGED <<store_kind, clock, user_id, provider_name>>

\* memory_cleanup_old_sessions(older_than_days) of client c
MemoryCleanupOldSessions(c, older_than_days) ==
    LET gone == SessionsToDelete(store_kind, store, older_than_days, clock)
    IN /\ store' = CleanupOldSessions(store_kind, store, older_than_days, clock)
       /\ saved' = [sid \in (DOMAIN saved) \ gone |-> saved[sid]]
       /\ created' = [sid \in (DOMAIN created) \ gone |-> created[sid]]
       /\ deleted' = [sid \in gone |-> Len(Get(store.messages, sid, <<>>))]
       /\ UNCHANGED <<store_kind, clock, uuid_count, memory_session_id, user_id,
                      provider_name, session_initialized, active_sessions>>

\* Time passes.
Tick ==
    /\ clock < MaxClock
    /\ clock' = clock + 1
    /\ deleted' = EmptyDict
    /\ UNCHANGED <<store_kind, store, uuid_count, memory_session_id, user_id,
                   provider_name, session_initialized, active_sessions, saved,
                   created>>

SwitchTargets == {LiteralSessionId("s2")}

RetentionDays == {0}

\* The memory subsystem before any client is constructed / idle
MemIdle ==
    /\ store_kind = "memory"
    /\ store = EmptyStore
    /\ clock = 0
    /\ uuid_count = 0
    /\ memory_session_id = [c \in Clients |-> None]
    /\ user_id = [c \in Clients |-> NoUser]
    /\ provider_name = [c \in Clients |-> ProviderOf(c)]
    /\ session_initialized = [c \in Clients |-> FALSE]
    /\ active_sessions = [c \in Clients |-> EmptyDict]
    /\ saved = EmptyDict
    /\ created = EmptyDict
    /\ deleted = EmptyDict

\* Two clients constructed over one empty store
MemInit ==
    /\ store_kind \in {"memory", "file"}
    /\ store = EmptyStore
    /\ clock = 0
    /\ uuid_count = 0
    /\ \E cfg \in ClientConfigs :
          /\ memory_session_id = [c \in Clients |-> cfg[c].sid]
          /\ user_id = [c \in Clients |-> cfg[c].user]
    /\ provider_name = [c \in Clients |-> ProviderOf(c)]
    /\ session_initialized = [c \in Clients |-> FALSE]
    /\ active_sessions = [c \in Clients |-> EmptyDict]
    /\ saved = EmptyDict
    /\ created = EmptyDict
    /\ deleted = EmptyDict

(***************************************************************************)
(* Persistent tool-channel overlay (PersistentAnthropicClient).            *)
(* A transport is numbered by the order in which its streaming-HTTP        *)
(* context was opened; the server gives it the session id of that number.  *)
(* 0 stands for None.  A connection state k has the fields                 *)
(*   connection_active, mcp_session_id, session, persistent_exit_stack,    *)
(*   abandoned, transports_opened, alive, client (the adapter class).      *)
(***************************************************************************)
MaxTransports == 2  \* streaming-HTTP contexts opened
MaxAsks == 2        \* turns delegated to ask_question

Range(s) == {s[i] : i \in 1..Len(s)}

\* PersistentAnthropicClient.__init__
NewConnection ==
    [connection_active |-> FALSE, mcp_session_id |-> 0, session |-> 0,
     persistent_exit_stack |-> <<>>, abandoned |-> {}, transports_opened |-> 0,
     alive |-> {}]

\* is_connected
IsConnected(k) == k.connection_active /\ k.mcp_session_id # 0

\* A probe that never succeeds.
VerifyConnectionHealth_Unhealthy(k) ==
    [healthy |-> FALSE, probed |-> FALSE,
     k |-> [k EXCEPT !.connection_active = FALSE]]

\* _verify_connection_health: its result, whether session.list_tools() was
\* called, and the connection afterwards
VerifyConnectionHealth(k) ==
    IF ~k.connection_active \/ k.mcp_session_id = 0
    THEN [healthy |-> FALSE, probed |-> FALSE, k |-> k]
    ELSE IF k.session = 0
    THEN [healthy |-> FALSE, probed |-> FALSE, k |-> k]
    ELSE IF k.session \in k.alive
    THEN [healthy |-> TRUE, probed |-> TRUE, k |-> k]
    ELSE [healthy |-> FALSE, probed |-> TRUE,
          k |-> [k EXCEPT !.connection_active = FALSE]]

\* Closing the exit stack runs the exit of every context it holds and leaves
\* it empty; aclose_ok is false when an exit raises (the close runs in another
\* task than the one that opened the context), and the contexts are then left
\* as they are.  An empty stack closes without error.
AcloseRaises(k, aclose_ok) == ~aclose_ok /\ k.persistent_exit_stack # <<>>

AcloseExitStack(k, aclose_ok) ==
    [k EXCEPT
       !.abandoned = IF AcloseRaises(k, aclose_ok)
                     THEN @ \cup Range(k.persistent_exit_stack) ELSE @,
       !.alive = IF AcloseRaises(k, aclose_ok)
                 THEN @ ELSE @ \ Range(k.persistent_exit_stack),
       !.persistent_exit_stack = <<>>]

\* PersistentGeminiClient.close_persistent_connection: an error of aclose
\* leaves the method through its outer handler, before the state is reset
GeminiClosePersistentConnection(k, aclose_ok) ==
    IF AcloseRaises(k, aclose_ok)
    THEN AcloseExitStack(k, aclose_ok)
    ELSE [AcloseExitStack(k, aclose_ok) EXCEPT !.connection_active = FALSE,
                                               !.mcp_session_id = 0]

\* close_persistent_connection of the Anthropic and OpenAI clients: the error
\* of aclose is caught, a new exit stack is installed and the state is reset
TolerantClosePersistentConnection(k, aclose_ok) ==
    [AcloseExitStack(k, aclose_ok) EXCEPT !.connection_active = FALSE,
                                          !.mcp_session_id = 0,
                                          !.session = 0]

\* close_persistent_connection of the client class k.client
ClosePersistentConnection(k, aclose_ok) ==
    IF k.client = "gemini"
    THEN GeminiClosePersistentConnection(k, aclose_ok)
    ELSE TolerantClosePersistentConnection(k, aclose_ok)

\* self._persistent_exit_stack.enter_async_context(connection_context())
EnterConnectionContext(k) ==
    LET t == k.transports_opened + 1
    IN [k EXCEPT !.persistent_exit_stack = Append(@, t),
                 !.transports_opened = t,
                 !.alive = @ \cup {t}]

\* connect_to_server over the streams of the transport opened last: on
\* success the client holds a tool session
ConnectToServer(k) == [k EXCEPT !.session = k.transports_opened]

\* What may go wrong while a connection is established, and whether closing
\* the exit stack succeeds
Failures == {"none", "setup_connection", "connection_context",
             "connect_to_server", "get_session_id"}

EstablishEnvs == [fail : Failures, aclose_ok : BOOLEAN]

\* The part of establish_persistent_connection inside `try`
OpenConnection(k, env) ==
    IF env.fail \in {"setup_connection", "connection_context"}
    THEN [raised |-> TRUE, returned |-> 0,
          k |-> ClosePersistentConnection(k, env.aclose_ok)]
    ELSE LET k1 == EnterConnectionContext(k)
         IN IF env.fail = "connect_to_server"
            THEN [raised |-> TRUE, returned |-> 0,
                  k |-> ClosePersistentConnection(k1, env.aclose_ok)]
            ELSE IF env.fail = "get_session_id"
            THEN [raised |-> TRUE, returned |-> 0,
                  k |-> ClosePersistentConnection(ConnectToServer(k1),
                                                  env.aclose_ok)]
            ELSE [raised |-> FALSE, returned |-> k1.transports_opened,
                  k |-> [ConnectToServer(k1) EXCEPT
                           !.mcp_session_id = k1.transports_opened,
                           !.connection_active = TRUE]]

\* establish_persistent_connection
EstablishPersistentConnection(k, env) ==
    IF k.connection_active /\ k.mcp_session_id # 0
    THEN LET h == VerifyConnectionHealth(k)
         IN IF h.healthy
            THEN [raised |-> FALSE, returned |-> k.mcp_session_id, k |-> k,
                  reused |-> TRUE, probed |-> h.probed]
            ELSE LET o == OpenConnection(
                              ClosePersistentConnection(h.k, env.aclose_ok), env)
                 IN [raised |-> o.raised, returned |-> o.returned, k |-> o.k,
                     reused |-> FALSE, probed |-> h.probed]
    ELSE LET o == OpenConnection(k, env)
         IN [raised |-> o.raised, returned |-> o.returned, k |-> o.k,
             reused |-> FALSE, probed |-> FALSE]

\* ask_with_persistent_session up to the call of ask_question
AskWithPersistentSession(k, auto_establish_connection, env) ==
    LET connected == IsConnected(k)
        h == IF auto_establish_connection /\ connected
             THEN VerifyConnectionHealth(k)
             ELSE [healthy |-> FALSE, probed |-> FALSE, k |-> k]
        establish == auto_establish_connection /\ (~connected \/ ~h.healthy)
        e == IF establish THEN EstablishPersistentConnection(h.k, env)
             ELSE [raised |-> FALSE, returned |-> 0, k |-> h.k,
                   reused |-> FALSE, probed |-> FALSE]
        raised == e.raised \/ ~IsConnected(e.k) \/ e.k.session = 0
    IN [k |-> e.k, connected |-> connected, probed |-> h.probed,
        probe_ok |-> h.healthy,
        marked_inactive |-> ~h.k.connection_active,
        established |-> establish /\ ~e.raised,
        raised |-> raised, delegated |-> ~raised]

\* The connection state of the client
Conn ==
    [connection_active |-> connection_active, mcp_session_id |-> mcp_session_id,
     session |-> session, persistent_exit_stack |-> persistent_exit_stack,
     abandoned |-> abandoned, transports_opened |-> transports_opened,
     alive |-> alive, client |-> adapter]

SetConn(k) ==
    /\ connection_active' = k.connection_active
    /\ mcp_session_id' = k.mcp_session_id
    /\ session' = k.session
    /\ persistent_exit_stack' = k.persistent_exit_stack
    /\ abandoned' = k.abandoned
    /\ transports_opened' = k.transports_opened
    /\ alive' = k.alive

\* The record of a call of the overlay
Call(call, auto, connected, probed, probe_ok, marked_inactive, established, reused, raised, result) ==
    [call |-> call, auto |-> auto, connected |-> connected, probed |-> probed,
     probe_ok |-> probe_ok, marked_inactive |-> marked_inactive,
     established |-> established, reused |-> reused, raised |-> raised,
     returned |-> result]

NoCall(call) == Call(call, FALSE, FALSE, FALSE, FALSE, FALSE, FALSE, FALSE, FALSE, 0)

\* A call of establish_persistent_connection
Establish(env) ==
    LET r == EstablishPersistentConnection(Conn, env)
    IN /\ r.k.transports_opened <= MaxTransports
       /\ SetConn(r.k)
       /\ lastCall' = Call("establish", FALSE, IsConnected(Conn), r.probed,
                           r.reused, ~r.reused /\ r.probed,
                           ~r.reused /\ ~r.raised, r.reused, r.raised, r.returned)
       /\ UNCHANGED delegated

\* A call of close_persistent_connection
Close(aclose_ok) ==
    /\ SetConn(ClosePersistentConnection(Conn, aclose_ok))
    /\ lastCall' = NoCall("close")
    /\ UNCHANGED delegated

\* A call of ask_with_persistent_session; the turn it delegates is the
\* orchestration loop of ask_question
Ask(auto_establish_connection, env) ==
    LET r == AskWithPersistentSession(Conn, auto_establish_connection, env)
    IN /\ r.k.transports_opened <= MaxTransports
       /\ delegated < MaxAsks
       /\ SetConn(r.k)
       /\ delegated' = IF r.delegated THEN delegated + 1 ELSE delegated
       /\ lastCall' = Call("ask", auto_establish_connection, r.connected,
                           r.probed, r.probe_ok, r.marked_inactive,
                           r.established, FALSE, r.raised, 0)

\* The server or the network drops the transport of the tool session:
\* list_tools on it raises from now on
TransportFails ==
    /\ session \in alive
    /\ alive' = alive \ {session}
    /\ lastCall' = NoCall("transport_fails")
    /\ UNCHANGED <<connection_active, mcp_session_id, session,
                   persistent_exit_stack, abandoned, transports_opened,
                   delegated>>

\* The overlay after construction
ConnIdle ==
    /\ connection_active = NewConnection.connection_active
    /\ mcp_session_id = NewConnection.mcp_session_id
    /\ session = NewConnection.session
    /\ persistent_exit_stack = NewConnection.persistent_exit_stack
    /\ abandoned = NewConnection.abandoned
    /\ transports_opened = NewConnection.transports_opened
    /\ alive = NewConnection.alive
    /\ delegated = 0
    /\ lastCall = NoCall("init")

(***************************************************************************)
(* ask_question(question, maintain_history, use_memory, load_from_memory)  *)
(* of a client with a memory store.  The client is "c1"; the steps are the *)
(* stretches of the method between its requests to the vendor.             *)
(***************************************************************************)
MaxMemTurns == 2    \* calls of ask_question on the client with memory

Me == "c1"

\* _convert_memory_to_anthropic_messages on what memory_load_history returns
\* (the dicts of AnthropicMessageConverter.from_universal)
ConvertMemoryToAnthropicMessages(memory_messages) ==
    [i \in 1..Len(memory_messages) |->
        Entry(memory_messages[i].role.value, "text",
              ContentStr(memory_messages[i].content), <<>>, <<>>)]

\* OpenAI: self.messages = memory_messages; without a converter for the
\* provider these are the UniversalMessage objects
UniversalEntry(m) == Entry(m.role.value, "universal", ContentStr(m.content), <<>>, <<>>)

\* The buffer that replaces self.messages after a load that returned messages
LoadedBuffer(a, memory_messages) ==
    IF a = "anthropic" THEN ConvertMemoryToAnthropicMessages(memory_messages)
    ELSE [i \in 1..Len(memory_messages) |-> UniversalEntry(memory_messages[i])]

\* Gemini: _convert_memory_to_gemini_messages calls msg.get on the
\* UniversalMessage objects, which raises AttributeError
LoadRaises(a, memory_messages) == a = "gemini" /\ memory_messages # <<>>

\* OpenAI: the request is built from msg['role'] and msg['content'] of the
\* last 10 entries, which raises TypeError on a UniversalMessage
ContextRaises(a, buf) ==
    /\ a = "openai"
    /\ \E i \in 1..Len(buf) : i > Len(buf) - 10 /\ buf[i].kind = "universal"

\* What the client saves after a reply of the provider
SaveAssistant(a, ms, r) ==
    CASE a = "anthropic" ->
           SaveMessageIn(ms, "assistant",
                         ListContent(ProcessContentBlocks(r).blocks), "")
      [] a = "openai" ->
           SaveMessageIn(ms, "assistant", StrContent(GeminiResponseText(r)), "")
      [] OTHER ->
           IF r # <<>> /\ GeminiResponseText(r) # <<>>
           THEN SaveMessageIn(ms, "assistant",
                              StrContent(GeminiResponseText(r)), "")
           ELSE ms

\* memory_save_message("user", content, "tool_result") for each content
RECURSIVE SaveEach(_, _)
SaveEach(ms, contents) ==
    IF contents = <<>> THEN ms
    ELSE SaveEach(SaveMessageIn(ms, "user", Head(contents), "tool_result"),
                  Tail(contents))

\* Gemini: str(result_part.function_response)
FunctionResponseStr(r) == <<"FunctionResponse(", r.name, r.key>> \o r.text \o <<")">>

\* What the client saves after the dispatch of a round
SaveResults(a, ms, results) ==
    CASE a = "anthropic" ->
           SaveEach(ms, <<ListContent([i \in 1..Len(results) |->
                                         DictItem(results[i])])>>)
      [] a = "openai" ->
           SaveEach(ms, [i \in 1..Len(results) |-> StrContent(results[i].text)])
      [] OTHER ->
           SaveEach(ms, [i \in 1..Len(results) |->
                           StrContent(FunctionResponseStr(results[i]))])

\* Only the question is saved at the end.
SaveSingle_QuestionOnly(ms, q, result) ==
    SaveMessageIn(ms, "user", StrContent(q), "")

\* The saves at the end of the branch without history
SaveSingle(ms, q, result) ==
    SaveMessageIn(SaveMessageIn(ms, "user", StrContent(q), ""),
                  "assistant", StrContent(result), "")

\* ask_single_question when connect_to_server fails
ConnectError == <<"Error:", "Failed", "to", "establish", "MCP", "connection.">>

\* The messages stored for the session of the facade ms
StoredHistory(ms) ==
    IF ms.sid = None THEN <<>>
    ELSE GetConversationHistory(ms.kind, ms.store, ms.sid, 0)

\* ask_question up to the first await after the load from memory
TurnAsk(q, mh, um, lm) ==
    /\ pc \in {"ready", "done", "error"}
    /\ turns < MaxMemTurns
    /\ LET l == IF um /\ mh /\ lm THEN LoadHistoryIn(MemState(Me))
                ELSE [ms |-> MemState(Me), messages |-> <<>>]
       IN /\ SetMemState(Me, l.ms)
          /\ hist_len' = Len(StoredHistory(l.ms))
          /\ IF LoadRaises(adapter, l.messages)
             THEN /\ pc' = "error"
                  /\ UNCHANGED messages
             ELSE /\ pc' = "save_user"
                  /\ messages' = IF l.messages # <<>>
                                 THEN LoadedBuffer(adapter, l.messages)
                                 ELSE messages
    /\ maintain_history' = mh
    /\ use_memory' = um
    /\ load_from_memory' = lm
    /\ question' = q
    /\ base' = messages
    /\ response_content' = <<>>
    /\ rounds' = 0
    /\ turns' = turns + 1
    /\ replyLog' = <<>>
    /\ dispatchLog' = <<>>
    /\ deleted' = EmptyDict
    /\ UNCHANGED <<adapter, max_history_length, tool_uses, returned,
                   store_kind, clock, user_id, provider_name>>

\* ... from there to the first request: the question is saved and put into
\* the buffer.  Without history ask_single_question takes over, and
\* connect_ok tells whether its temporary connection is set up.
TurnSaveUser(connect_ok) ==
    /\ pc = "save_user"
    /\ LET ms == IF use_memory
                 THEN SaveMessageIn(MemState(Me), "user", StrContent(question), "")
                 ELSE MemState(Me)
           buf == Append(messages, QuestionEntry(adapter, question))
       IN IF maintain_history
          THEN /\ messages' = buf
               /\ pc' = IF ContextRaises(adapter, buf) THEN "error" ELSE "send"
               /\ SetMemState(Me, ms)
               /\ UNCHANGED returned
          ELSE IF connect_ok
          THEN /\ pc' = "send"
               /\ SetMemState(Me, ms)
               /\ UNCHANGED <<messages, returned>>
          ELSE /\ pc' = "done"
               /\ returned' = ConnectError
               /\ SetMemState(Me, IF use_memory
                                  THEN SaveSingle(ms, question, ConnectError)
                                  ELSE ms)
               /\ UNCHANGED messages
    /\ deleted' = EmptyDict
    /\ UNCHANGED <<adapter, max_history_length, tool_uses, response_content,
                   rounds, turns, base, question, replyLog, dispatchLog,
                   store_kind, clock, user_id, provider_name, turnVars>>

\* One request to the vendor SDK and the handling of its reply r
TurnReply(r) ==
    /\ pc = "send"
    /\ \E e \in {ReplyEffect(adapter, messages, r)} :
       \E text \in {response_content \o e.text} :
       \E ms \in {MemState(Me)} :
          /\ response_content' = text
          /\ replyLog' = Append(replyLog, r)
          /\ IF maintain_history
             THEN /\ \E sm \in {IF use_memory THEN SaveAssistant(adapter, ms, r)
                                 ELSE ms} : SetMemState(Me, sm)
                  /\ IF LoopExits(e.uses)
                     THEN /\ messages' = TrimHistory(e.buf, max_history_length)
                          /\ returned' = Strip(text)
                          /\ pc' = "done"
                          /\ UNCHANGED tool_uses
                     ELSE /\ messages' = e.buf
                          /\ tool_uses' = e.uses
                          /\ pc' = "dispatch"
                          /\ UNCHANGED returned
             ELSE /\ UNCHANGED messages
                  /\ IF LoopExits(e.uses)
                     THEN /\ returned' = Strip(text)
                          /\ pc' = "done"
                          /\ \E sm \in {IF use_memory
                                         THEN SaveSingle(ms, question, Strip(text))
                                         ELSE ms} : SetMemState(Me, sm)
                          /\ UNCHANGED tool_uses
                     ELSE /\ tool_uses' = e.uses
                          /\ pc' = "dispatch"
                          /\ SetMemState(Me, ms)
                          /\ UNCHANGED returned
    /\ deleted' = EmptyDict
    /\ UNCHANGED <<adapter, max_history_length, rounds, turns, base, question,
                   dispatchLog, store_kind, clock, user_id, provider_name,
                   turnVars>>

\* _execute_tool_calls on the invocations of the reply, the injection of the
\* results and their saving
TurnDispatch(os) ==
    /\ pc = "dispatch"
    /\ LET results == ExecuteToolCalls(adapter, tool_uses, os)
           buf == InjectResults(adapter, messages, results)
           ms == MemState(Me)
       IN IF maintain_history
          THEN /\ messages' = buf
               /\ SetMemState(Me, IF use_memory
                                  THEN SaveResults(adapter, ms, results) ELSE ms)
               /\ pc' = IF ContextRaises(adapter, buf) THEN "error" ELSE "send"
          ELSE /\ pc' = "send"
               /\ SetMemState(Me, ms)
               /\ UNCHANGED messages
    /\ dispatchLog' = Append(dispatchLog, os)
    /\ rounds' = rounds + 1
    /\ deleted' = EmptyDict
    /\ UNCHANGED <<adapter, max_history_length, tool_uses, response_content,
                   returned, turns, base, question, replyLog, store_kind,
                   clock, user_id, provider_name, turnVars>>

\* memory_switch_session between two calls of ask_question
TurnSwitchSession(new_session_id) ==
    /\ pc \in {"ready", "done", "error"}
    /\ memory_session_id[Me] # new_session_id
    /\ MemorySwitchSession(Me, new_session_id, TRUE)
    /\ UNCHANGED <<loopVars, turnVars>>

\* The arguments of ask_question: maintain_history, use_memory,
\* load_from_memory
TurnFlags ==
    {<<TRUE, TRUE, TRUE>>, <<TRUE, TRUE, FALSE>>, <<TRUE, FALSE, TRUE>>,
     <<FALSE, TRUE, TRUE>>, <<FALSE, FALSE, TRUE>>}

TurnOutcomes == {Outcome("ok", <<"42">>)}

\* No call of ask_question with memory is made
TurnIdle ==
    /\ maintain_history = FALSE
    /\ use_memory = FALSE
    /\ load_from_memory = FALSE
    /\ hist_len = 0

\* One client of any adapter class constructed over an empty store with the
\* session id "s1" and the user "u1"
TurnMemInit ==
    /\ store_kind \in {"memory", "file"}
    /\ store = EmptyStore
    /\ clock = 0
    /\ uuid_count = 0
    /\ memory_session_id = [c \in Clients |->
                              IF c = Me THEN LiteralSessionId("s1") ELSE None]
    /\ user_id = [c \in Clients |-> IF c = Me THEN "u1" ELSE NoUser]
    /\ provider_name = [c \in Clients |-> IF c = Me THEN adapter ELSE ProviderOf(c)]
    /\ session_initialized = [c \in Clients |-> FALSE]
    /\ active_sessions = [c \in Clients |-> EmptyDict]
    /\ saved = EmptyDict
    /\ created = EmptyDict
    /\ deleted = EmptyDict


\* The client of class AnthropicClient that shares the store and the
\* memory_session_id with the client that is asked
Writer == "c2"

\* What an Anthropic client persists in ask_question: the question as a
\* string, the reply as its list of content blocks
WriterInputs ==
    {<<"user", StrContent(<<"quote", "V">>)>>,
     <<"assistant", ListContent(<<TextBlock(<<"done">>)>>)>>}

\* memory_save_message of the Anthropic client between two calls of the
\* client that is asked
WriterSave(role, content) ==
    /\ pc \in {"ready", "done", "error"}
    /\ MemorySaveMessage(Writer, role, content)
    /\ UNCHANGED <<loopVars, turnVars>>

\* Two clients constructed over one empty store with the session id "s1"
\* and the user "u1": an AnthropicClient and a client of any adapter class
CrossMemInit ==
    /\ store_kind \in {"memory", "file"}
    /\ store = EmptyStore
    /\ clock = 0
    /\ uuid_count = 0
    /\ memory_session_id = [c \in Clients |-> LiteralSessionId("s1")]
    /\ user_id = [c \in Clients |-> "u1"]
    /\ provider_name = [c \in Clients |-> IF c = Me THEN adapter ELSE "anthropic"]
    /\ session_initialized = [c \in Clients |-> FALSE]
    /\ active_sessions = [c \in Clients |-> EmptyDict]
    /\ saved = EmptyDict
    /\ created = EmptyDict
    /\ deleted = EmptyDict

\* The text of an exception of the vendor SDK
VendorError == <<"boom">>

\* Gemini: return f"Error: {e}"
GeminiErrorText(e) == <<"Error:">> \o e

\* The vendor SDK raises in the request.  AnthropicClient and OpenAiClient
\* have no handler around it; GeminiClient catches Exception in the loop of
\* ask_question and of _ask_single_question_with_session and returns the
\* error text, which the branch without history then saves.
TurnSendRaises(e) ==
    /\ pc = "send"
    /\ \E ms \in {MemState(Me)} :
          IF adapter = "gemini"
          THEN /\ pc' = "done"
               /\ returned' = GeminiErrorText(e)
               /\ \E sm \in {IF ~maintain_history /\ use_memory
                              THEN SaveSingle(ms, question, GeminiErrorText(e))
                              ELSE ms} : SetMemState(Me, sm)
          ELSE /\ pc' = "error"
               /\ SetMemState(Me, ms)
               /\ UNCHANGED returned
    /\ deleted' = EmptyDict
    /\ UNCHANGED <<adapter, max_history_length, messages, tool_uses,
                   response_content, rounds, turns, base, question, replyLog,
                   dispatchLog, store_kind, clock, user_id, provider_name,
                   turnVars>>

\* The arguments of ask_question of the client that continues: with the
\* buffer and the load, and without the buffer
CrossFlags == {<<TRUE, TRUE, TRUE>>, <<FALSE, TRUE, TRUE>>}

\* The task that runs ask_question is cancelled while it is suspended in an
\* await (a memory call, the request, a tool call): CancelledError leaves
\* the call, no handler of ask_question or of the memory facade catches it
TurnCancel ==
    /\ pc \in {"save_user", "send", "dispatch"}
    /\ pc' = "error"
    /\ deleted' = EmptyDict
    /\ UNCHANGED <<adapter, max_history_length, messages, tool_uses,
                   response_content, returned, rounds, turns, base, question,
                   replyLog, dispatchLog, store_kind, store, clock, uuid_count,
                   memory_session_id, user_id, provider_name,
                   session_initialized, active_sessions, saved, created,
                   turnVars>>

(***************************************************************************)
(* Turns of one Anthropic client with a short max_history_length.          *)
(***************************************************************************)
\* config["max_history_length"]
TrimLengths == {2, 3}

\* The arguments of ask_question: the buffer with memory and the load, and
\* the buffer alone
TrimFlags == {<<TRUE, TRUE, TRUE>>, <<TRUE, FALSE, FALSE>>}

\* AnthropicClient.__init__ with max_history_length configured
TrimLoopInit ==
    /\ adapter = "anthropic"
    /\ max_history_length \in TrimLengths
    /\ messages = <<>>
    /\ pc = "ready"
    /\ tool_uses = <<>>
    /\ response_content = <<>>
    /\ returned = <<>>
    /\ rounds = 0
    /\ turns = 0
    /\ base = <<>>
    /\ question = <<>>
    /\ replyLog = <<>>
    /\ dispatchLog = <<>>

(***************************************************************************)
(* Calls on the SessionManager of client Me (memory/session_manager.py):   *)
(* generate_session_id, create_session with a generated id, clone_session, *)
(* next to memory_save_message and memory_switch_session of the client.    *)
(***************************************************************************)
MaxSessUuids == 5   \* uuid4 values drawn for message ids
MaxGenerated == 2   \* calls of generate_session_id by itself or by create_session
MaxClones == 1      \* clone_session calls that return

\* The values uuid.uuid4().hex[:8] takes in generate_session_id
UniqueParts == {1, 2}

\* The inputs of memory_save_message: role, content and message_type
SessSaveInputs ==
    {<<"assistant", ListContent(<<TextBlock(<<"done">>)>>), "">>,
     <<"user", ListContent(<<DictItem([tool_use_id |-> "t1", name |-> "search",
                                       key |-> "k", text |-> <<"42">>])>>),
       "tool_result">>}

\* The copy loop of clone_session that reuses the message ids of the source.
RECURSIVE CopyMessages_SameIds(_, _, _)
CopyMessages_SameIds(ms, msgs, new_session_id) ==
    IF msgs = <<>> THEN ms
    ELSE LET msg == Head(msgs)
             new_msg == UniversalMessage(msg.role, msg.content, msg.message_type,
                                         ms.now, msg.message_id,
                                         new_session_id, msg.provider, msg.user_id)
         IN CopyMessages_SameIds(
               [ms EXCEPT !.store = SaveMessage(ms.kind, @, new_msg),
                          !.saved = Put(@, new_session_id,
                                        Append(Get(@, new_session_id, <<>>), new_msg))],
               Tail(msgs), new_session_id)

\* `for msg in source_messages`: a new UniversalMessage per message, with a
\* new message_id and timestamp, saved under the new session id
RECURSIVE CopyMessages(_, _, _)
CopyMessages(ms, msgs, new_session_id) ==
    IF msgs = <<>> THEN ms
    ELSE LET msg == Head(msgs)
             new_msg == UniversalMessage(msg.role, msg.content, msg.message_type,
                                         ms.now, ms.uuid_count + 1,
                                         new_session_id, msg.provider, msg.user_id)
         IN CopyMessages(
               [ms EXCEPT !.store = SaveMessage(ms.kind, @, new_msg),
                          !.uuid_count = @ + 1,
                          !.saved = Put(@, new_session_id,
                                        Append(Get(@, new_session_id, <<>>), new_msg))],
               Tail(msgs), new_session_id)

\* SessionManager.clone_session(source_session_id, new_session_id) on the
\* facade ms; new_session_id None: the id is generated with the unique part
\* u.  The result: whether it raised, the facade afterwards, the id of the
\* clone, and the ids generate_session_id returned.
CloneSession(ms, source_session_id, new_session_id, u) ==
    LET g == ManagerGetSession(ms.kind, ms.store, ms.cache, source_session_id)
    IN IF g.session = None
       THEN [raised |-> TRUE, ms |-> [ms EXCEPT !.cache = g.cache],
             new |-> None, generated |-> <<>>]
       ELSE LET gen == new_session_id = None
                nid == IF gen
                       THEN GenerateSessionId(g.session.user_id,
                                              g.session.client_type, "cloned",
                                              ms.now, u, g.cache)
                       ELSE new_session_id
                ids == IF gen THEN <<nid>> ELSE <<>>
                c == CreateSession(ms.kind, ms.store, g.cache, nid,
                                   g.session.user_id, g.session.client_type,
                                   ms.now)
            IN IF c.raised
               THEN [raised |-> TRUE, ms |-> [ms EXCEPT !.cache = c.cache],
                     new |-> None, generated |-> ids]
               ELSE LET source_messages ==
                            GetConversationHistory(ms.kind, c.store,
                                                   source_session_id, 0)
                        m1 == [ms EXCEPT !.store = c.store, !.cache = c.cache,
                                         !.created = Put(@, nid, g.session.user_id)]
                    IN [raised |-> FALSE,
                        ms |-> CopyMessages(m1, source_messages, nid),
                        new |-> nid, generated |-> ids]

\* session_manager.generate_session_id(user_id, client_type, context) called
\* by itself, as the constructor of a persistent client does
SessGenerate(u, context) ==
    /\ Len(generated) < MaxGenerated
    /\ generated' = Append(generated,
                           GenerateSessionId(user_id[Me], provider_name[Me],
                                             context, clock, u,
                                             active_sessions[Me]))
    /\ UNCHANGED <<memVars, clones>>

\* session_manager.create_session(user_id=..., client_type=...) without a
\* session id
SessCreate(u) ==
    /\ Len(generated) < MaxGenerated
    /\ LET id == GenerateSessionId(user_id[Me], provider_name[Me], "", clock, u,
                                   active_sessions[Me])
           c == CreateSession(store_kind, store, active_sessions[Me], id,
                              user_id[Me], provider_name[Me], clock)
       IN /\ generated' = Append(generated, id)
          /\ store' = c.store
          /\ active_sessions' = [active_sessions EXCEPT ![Me] = c.cache]
          /\ created' = IF c.created THEN Put(created, id, user_id[Me])
                        ELSE created
    /\ deleted' = EmptyDict
    /\ UNCHANGED <<store_kind, clock, uuid_count, memory_session_id, user_id,
                   provider_name, session_initialized, saved, clones>>

\* memory_save_message(role, content, message_type) of client Me
SessSave(role, content, message_type) ==
    /\ uuid_count < MaxSessUuids
    /\ SetMemState(Me, SaveMessageIn(MemState(Me), role, content, message_type))
    /\ deleted' = EmptyDict
    /\ UNCHANGED <<store_kind, clock, user_id, provider_name, sessVars>>

\* session_manager.clone_session(source_session_id, new_session_id)
SessClone(source_session_id, new_session_id, u) ==
    /\ Len(clones) < MaxClones
    /\ uuid_count + Len(Get(store.messages, source_session_id, <<>>))
          <= MaxSessUuids
    /\ LET r == CloneSession(MemState(Me), source_session_id, new_session_id, u)
       IN /\ store' = r.ms.store
          /\ uuid_count' = r.ms.uuid_count
          /\ active_sessions' = [active_sessions EXCEPT ![Me] = r.ms.cache]
          /\ saved' = r.ms.saved
          /\ created' = r.ms.created
          /\ generated' = generated \o r.generated
          /\ clones' = IF r.raised THEN clones
                       ELSE Append(clones, [source |-> source_session_id,
                                            new |-> r.new])
    /\ deleted' = EmptyDict
    /\ UNCHANGED <<store_kind, clock, memory_session_id, user_id, provider_name,
                   session_initialized>>

\* memory_switch_session(new_session_id) of client Me
SessSwitch(new_session_id) ==
    /\ new_session_id # memory_session_id[Me]
    /\ MemorySwitchSession(Me, new_session_id, TRUE)
    /\ UNCHANGED sessVars

\* The sessions clone_session is asked to copy, and the ids it is given
CloneSources == {LiteralSessionId("s1"), LiteralSessionId("s2")}

CloneTargets == {None, LiteralSessionId("s2")}

\* The sessions the client switches to: the configured ones and the clones
SessSwitchTargets ==
    {LiteralSessionId("s1")} \cup {clones[i].new : i \in 1..Len(clones)}

Contexts == {"", "persistent"}

\* No session manager call was made
SessIdle ==
    /\ generated = <<>>
    /\ clones = <<>>

(***************************************************************************)
(* Construction of clients over one store.  "c1" is constructed as an      *)
(* ordinary client (ConversationMemoryMixin.__init__), "c2" as a           *)
(* persistent client (PersistentAnthropicClient.__init__).  A client that  *)
(* is not constructed yet has no user.                                     *)
(***************************************************************************)
Ordinary == "c1"

Persistent == "c2"

Constructed(c) == user_id[c] # NoUser

\* ConversationMemoryMixin.__init__(memory_store, memory_session_id, user_id)
MemoryMixinInit(c, sid, user) ==
    /\ ~Constructed(c)
    /\ memory_session_id' = [memory_session_id EXCEPT ![c] = sid]
    /\ user_id' = [user_id EXCEPT ![c] = user]
    /\ session_initialized' = [session_initialized EXCEPT ![c] = FALSE]
    /\ active_sessions' = [active_sessions EXCEPT ![c] = EmptyDict]
    /\ deleted' = EmptyDict
    /\ UNCHANGED <<store_kind, store, clock, uuid_count, provider_name, saved,
                   created, sessVars>>

\* PersistentAnthropicClient.__init__: the mixin's __init__, then the eager
\* generation of the memory session id when none is given; u is the random
\* part of the id
PersistentClientInit(c, sid, user, u) ==
    /\ ~Constructed(c)
    /\ LET id == GenerateSessionId(user, provider_name[c], "persistent", clock,
                                   u, EmptyDict)
       IN /\ memory_session_id' = [memory_session_id EXCEPT
                                     ![c] = IF sid = None THEN id ELSE sid]
          /\ generated' = IF sid = None THEN Append(generated, id) ELSE generated
    /\ user_id' = [user_id EXCEPT ![c] = user]
    /\ session_initialized' = [session_initialized EXCEPT ![c] = FALSE]
    /\ active_sessions' = [active_sessions EXCEPT ![c] = EmptyDict]
    /\ deleted' = EmptyDict
    /\ UNCHANGED <<store_kind, store, clock, uuid_count, provider_name, saved,
                   created, clones>>

\* The memory_session_id a client is constructed with
ConfiguredSessionIds == {None, LiteralSessionId("s1")}

\* No client is constructed over the store of either class
CtorInit ==
    /\ store_kind \in {"memory", "file"}
    /\ store = EmptyStore
    /\ clock = 0
    /\ uuid_count = 0
    /\ memory_session_id = [c \in Clients |-> None]
    /\ user_id = [c \in Clients |-> NoUser]
    /\ provider_name = [c \in Clients |-> ProviderOf(c)]
    /\ session_initialized = [c \in Clients |-> FALSE]
    /\ active_sessions = [c \in Clients |-> EmptyDict]
    /\ saved = EmptyDict
    /\ created = EmptyDict
    /\ deleted = EmptyDict
(***************************************************************************)
(* BaseLLMClient._validate_question and the entry points that take a       *)
(* question (clients/base_llm_client.py, clients/*_client.py).             *)
(***************************************************************************)
MaxQuestionLength == 100000   \* len(question) > 100000

\* A str as its runs of characters <<class, count>>: "ws" whitespace, "ch"
\* any other character but "\x00", "nul" the character "\x00"
Str(runs) == [is_str |-> TRUE, truthy |-> runs # <<>>, runs |-> runs]

\* A value of another type: None, 0 and [] are falsy, 5 and ["x"] are not
NonStr(truthy) == [is_str |-> FALSE, truthy |-> truthy, runs |-> <<>>]

\* len(s)
RECURSIVE StrLen(_)
StrLen(runs) == IF runs = <<>> THEN 0 ELSE Head(runs)[2] + StrLen(Tail(runs))

RECURSIVE LStripRuns(_)
LStripRuns(runs) ==
    IF runs # <<>> /\ Head(runs)[1] = "ws" THEN LStripRuns(Tail(runs)) ELSE runs

RECURSIVE RStripRuns(_)
RStripRuns(runs) ==
    IF runs # <<>> /\ runs[Len(runs)][1] = "ws"
    THEN RStripRuns(SubSeq(runs, 1, Len(runs) - 1)) ELSE runs

\* s.strip()
StripRuns(runs) == RStripRuns(LStripRuns(runs))

\* s.count('\x00')
RECURSIVE CountNul(_)
CountNul(runs) ==
    IF runs = <<>> THEN 0
    ELSE (IF Head(runs)[1] = "nul" THEN Head(runs)[2] ELSE 0) + CountNul(Tail(runs))

\* What a call returns or raises
Returns(value) == [raised |-> FALSE, error |-> "", value |-> value]
Raises(error, value) == [raised |-> TRUE, error |-> error, value |-> value]

\* The limit is taken as exclusive.
ValidateQuestion_OffByOne(q) ==
    IF ~q.truthy THEN Raises("Question cannot be None or empty", q)
    ELSE IF ~q.is_str THEN Raises("Question must be a string", q)
    ELSE LET stripped == StripRuns(q.runs)
         IN IF stripped = <<>>
            THEN Raises("Question cannot be empty or whitespace only", q)
            ELSE IF StrLen(stripped) >= MaxQuestionLength
            THEN Raises("Question is too long (max 100,000 characters)", q)
            ELSE IF CountNul(stripped) > 0
            THEN Raises("Question contains null bytes", q)
            ELSE Returns(Str(stripped))

\* _validate_question(q)
ValidateQuestion(q) ==
    IF ~q.truthy THEN Raises("Question cannot be None or empty", q)
    ELSE IF ~q.is_str THEN Raises("Question must be a string", q)
    ELSE LET stripped == StripRuns(q.runs)
         IN IF stripped = <<>>
            THEN Raises("Question cannot be empty or whitespace only", q)
            ELSE IF StrLen(stripped) > MaxQuestionLength
            THEN Raises("Question is too long (max 100,000 characters)", q)
            ELSE IF CountNul(stripped) > 0
            THEN Raises("Question contains null bytes", q)
            ELSE Returns(Str(stripped))

AskMethods == {"ask_single_question", "ask_question", "process_query"}

\* The entry points that call _validate_question: ask_single_question and
\* ask_question of AnthropicClient
Validates(a, m) == a = "anthropic" /\ m \in {"ask_single_question", "ask_question"}

\* The arguments the entry points are called with
AskArguments ==
    {NonStr(FALSE), NonStr(TRUE), Str(<<>>), Str(<<<<"ws", 3>>>>),
     Str(<<<<"ch", 5>>>>), Str(<<<<"ws", 1>>, <<"ch", 5>>, <<"ws", 1>>>>),
     Str(<<<<"ch", 2>>, <<"nul", 1>>, <<"ch", 2>>>>),
     Str(<<<<"ch", MaxQuestionLength - 1>>>>),
     Str(<<<<"ch", MaxQuestionLength>>>>),
     Str(<<<<"ch", MaxQuestionLength + 1>>>>),
     Str(<<<<"ws", 1>>, <<"ch", MaxQuestionLength>>>>),
     Str(<<<<"ws", 1>>, <<"ch", MaxQuestionLength + 1>>>>),
     Str(<<<<"ch", MaxQuestionLength>>, <<"nul", 1>>>>)}

\* An entry point m(q) of a client with an MCP session, without memory, up
\* to its first request: the validation where the method has one, then the
\* question is put into the buffer (ask_question with maintain_history,
\* process_query) or into the temporary list of ask_single_question, and
\* the request is made.
CallAsk(m, q, mh) ==
    /\ pc = "ready"
    /\ method' = m
    /\ arg' = q
    /\ \E v \in {IF Validates(adapter, m) THEN ValidateQuestion(q) ELSE Returns(q)} :
          /\ out' = v
          /\ IF v.raised
             THEN /\ pc' = "error"
                  /\ UNCHANGED <<messages, question>>
             ELSE /\ pc' = "send"
                  /\ question' = v.value
                  /\ messages' = IF m = "process_query" \/ (m = "ask_question" /\ mh)
                                 THEN Append(messages, QuestionEntry(adapter, v.value))
                                 ELSE messages
    /\ maintain_history' = (m = "ask_question" /\ mh)
    /\ turns' = turns + 1
    /\ UNCHANGED <<adapter, max_history_length, tool_uses, response_content,
                   returned, rounds, base, replyLog, dispatchLog, use_memory,
                   load_from_memory, hist_len>>
(***************************************************************************)
(* LLMClientFactory.detect_provider (clients/llm_client_factory.py).       *)
(* Strings are sequences of tokens; a prefix is a leading run of tokens.   *)
(***************************************************************************)
\* LLMProvider, in the order of the enumeration
LLMProvider == <<"anthropic", "openai", "gemini">>

\* MODEL_PATTERNS, in the order of the dict
MODEL_PATTERNS ==
    <<<<"openai", {<<"gpt-">>, <<"o1-">>, <<"text-davinci">>, <<"text-curie">>,
                   <<"text-babbage">>, <<"text-ada">>}>>,
      <<"anthropic", {<<"claude-">>, <<"claude_">>}>>,
      <<"gemini", {<<"gemini-">>, <<"gemini_">>, <<"bison">>, <<"gecko">>}>>>>

\* API_KEY_PATTERNS, in the order of the dict
API_KEY_PATTERNS ==
    <<<<"openai", {<<"sk-">>, <<"sk_">>}>>,
      <<"anthropic", {<<"sk-", "ant-">>}>>,
      <<"gemini", {<<"AI">>}>>>>

\* str.lower() on a token
LowerToken(t) ==
    CASE t = "OpenAI" -> "openai"
      [] t = "Anthropic" -> "anthropic"
      [] t = "GPT-" -> "gpt-"
      [] t = "Claude-" -> "claude-"
      [] t = "AI" -> "ai"
      [] OTHER -> t

\* s.lower()
Lower(s) == [i \in 1..Len(s) |-> LowerToken(s[i])]

\* s.startswith(p)
StartsWith(s, p) == Len(p) <= Len(s) /\ SubSeq(s, 1, Len(p)) = p

\* name in s, for a name that is one token
Contains(s, name) == \E i \in 1..Len(s) : s[i] = name

\* No provider: what the steps of detect_provider fall through with
NoProvider == ""

\* for provider, patterns in table.items(): the first provider with a
\* pattern that s starts with
RECURSIVE FirstWithPrefix(_, _)
FirstWithPrefix(table, s) ==
    IF table = <<>> THEN NoProvider
    ELSE IF \E p \in Head(table)[2] : StartsWith(s, p) THEN Head(table)[1]
    ELSE FirstWithPrefix(Tail(table), s)

\* A configuration dict: the provider field (empty when the key is absent),
\* LLM_MODEL and LLM_API_KEY (empty when absent) and the rest of the dict
Config(provider, model, api_key, rest) ==
    [provider |-> provider, LLM_MODEL |-> model, LLM_API_KEY |-> api_key,
     rest |-> rest]

\* str(config)
ConfigStr(config) ==
    (IF config.provider = <<>> THEN <<>> ELSE <<"provider">> \o config.provider)
    \o (IF config.LLM_MODEL = <<>> THEN <<>> ELSE <<"LLM_MODEL">> \o config.LLM_MODEL)
    \o (IF config.LLM_API_KEY = <<>> THEN <<>>
        ELSE <<"LLM_API_KEY">> \o config.LLM_API_KEY)
    \o config.rest

\* Step 3 of detect_provider
ApiKeyProvider(api_key) ==
    IF api_key = <<>> THEN NoProvider ELSE FirstWithPrefix(API_KEY_PATTERNS, api_key)

\* Step 2 of detect_provider
ModelProvider(model) ==
    IF Lower(model) = <<>> THEN NoProvider
    ELSE FirstWithPrefix(MODEL_PATTERNS, Lower(model))

\* Step 4 of detect_provider
ContentProvider(config) ==
    IF Contains(Lower(ConfigStr(config)), "anthropic") THEN "anthropic"
    ELSE IF Contains(Lower(ConfigStr(config)), "openai") THEN "openai"
    ELSE IF Contains(Lower(ConfigStr(config)), "gemini") THEN "gemini"
    ELSE NoProvider

\* detect_provider(config)
DetectProvider(config) ==
    IF config.provider # <<>>
    THEN IF \E i \in 1..Len(LLMProvider) : <<LLMProvider[i]>> = Lower(config.provider)
         THEN Returns(Lower(config.provider)[1])
         ELSE Raises("Unknown provider specified", config.provider)
    ELSE IF ModelProvider(config.LLM_MODEL) # NoProvider
    THEN Returns(ModelProvider(config.LLM_MODEL))
    ELSE IF ApiKeyProvider(config.LLM_API_KEY) # NoProvider
    THEN Returns(ApiKeyProvider(config.LLM_API_KEY))
    ELSE IF ContentProvider(config) # NoProvider
    THEN Returns(ContentProvider(config))
    ELSE Raises("Cannot detect LLM provider", <<>>)

\* The configurations detect_provider is called with
ProviderFields == {<<>>, <<"anthropic">>, <<"OpenAI">>, <<"mistral">>}
ModelNames ==
    {<<>>, <<"GPT-", "4o">>, <<"claude-", "3">>, <<"gemini-", "pro">>,
     <<"my-", "openai", "-model">>, <<"llama">>}
ApiKeys ==
    {<<>>, <<"sk-", "ant-", "k1">>, <<"sk-", "k2">>, <<"sk_", "k3">>,
     <<"AI", "za">>, <<"key">>}
RestOfConfig == {<<>>, <<"agentServers", "https://", "gemini", ".example">>}

Configs ==
    {Config(p, m, k, r) : p \in ProviderFields, m \in ModelNames,
                          k \in ApiKeys, r \in RestOfConfig}

\* One call of detect_provider
CallDetectProvider(config) ==
    /\ method' = "detect_provider"
    /\ arg' = config
    /\ out' = DetectProvider(config)

(***************************************************************************)
(* The transport of a client (mcp_client/streamable_http.py,               *)
(* mcp_client/enhanced_mcp_client.py).                                     *)
(***************************************************************************)
\* A client_context: None, or a dict with its "type" ("" when it has none;
\* the dict without keys is falsy)
NoContext == [is_none |-> TRUE, empty |-> TRUE, type |-> ""]
Context(empty, type) == [is_none |-> FALSE, empty |-> empty, type |-> type]

ClientContexts ==
    {NoContext, Context(TRUE, ""), Context(FALSE, ""), Context(FALSE, "openbb"),
     Context(FALSE, "OpenBB"), Context(FALSE, "web")}

\* config["agentServers"]["viaNexus"] with a client_context entry
ServerConfig(server_url, client_context) ==
    [server_url |-> server_url, client_context |-> client_context]

ServerConfigs ==
    {ServerConfig(url, cc) : url \in {"https://s1", "https://s2"},
                             cc \in ClientContexts}

\* StreamableHttpSetup.from_config(config, client_context=client_context)
FromConfig(config, client_context) ==
    [server_url |-> config.server_url, client_context |-> client_context]

\* EnhancedMCPClient.__init__(config, client_context=client_context)
EnhancedMCPClientInit(config, client_context) ==
    [client_context |-> client_context,
     connection_manager |-> FromConfig(config, client_context)]

\* The __init__ of the adapter classes:
\* EnhancedMCPClient.__init__(self, config["agentServers"]["viaNexus"])
AdapterInit(server_config) == EnhancedMCPClientInit(server_config, NoContext)

\* _get_tool_categories_header
GetToolCategoriesHeader(setup) ==
    IF /\ ~setup.client_context.is_none
       /\ ~setup.client_context.empty
       /\ setup.client_context.type = "openbb"
    THEN [name |-> "X-Tool-Categories", value |-> <<"financial", ",", "openbb">>]
    ELSE [name |-> "X-Tool-Categories", value |-> <<"financial">>]

\* connection_context(): the headers of the transport
ConnectionContext(setup) == {GetToolCategoriesHeader(setup)}

\* The classes a transport is opened by: the adapters, and
\* EnhancedMCPClient constructed with a client_context of its own
TransportClasses == Adapters \cup {"enhanced"}

\* A client of class a is constructed on a tool-server configuration and
\* opens a transport
CallConnectionContext(a, server_config, client_context) ==
    /\ a \in Adapters => client_context = NoContext
    /\ method' = "connection_context"
    /\ arg' = [class |-> a, server_config |-> server_config,
               client_context |-> client_context]
    /\ out' = ConnectionContext(
                 IF a \in Adapters THEN AdapterInit(server_config).connection_manager
                 ELSE EnhancedMCPClientInit(server_config, client_context).connection_manager)
(***************************************************************************)
(* The queries of the stores: search_messages and get_conversation_history *)
(* with all their arguments (memory/stores/*.py).                          *)
(***************************************************************************)
MaxStored == 3    \* messages saved before the queries

\* str.lower() on the tokens of contents and queries
LowerText(s) ==
    [i \in 1..Len(s) |->
        CASE s[i] = "A" -> "a"
          [] s[i] \in {"DONE", "Done"} -> "done"
          [] OTHER -> s[i]]

\* sub in s
In(sub, s) ==
    \E i \in 0..(Len(s) - Len(sub)) : SubSeq(s, i + 1, i + Len(sub)) = sub

\* s[:stop]
SliceTo(s, stop) ==
    LET e == IF stop >= 0 THEN (IF stop < Len(s) THEN stop ELSE Len(s))
             ELSE (IF Len(s) + stop > 0 THEN Len(s) + stop ELSE 0)
    IN SubSeq(s, 1, e)

\* s[start:]
SliceFrom(s, start) ==
    LET b == IF start >= 0 THEN (IF start < Len(s) THEN start ELSE Len(s))
             ELSE (IF Len(s) + start > 0 THEN Len(s) + start ELSE 0)
    IN SubSeq(s, b + 1, Len(s))

\* The messages get_conversation_history reads for a session
MessagesOf(kind, st, sid) ==
    LET stored == Get(st.messages, sid, <<>>)
    IN IF kind = "memory" THEN stored
       ELSE [i \in 1..Len(stored) |-> FromJson(stored[i])]

\* The index of the first message with the id, 0 when there is none
RECURSIVE CutoffIndex(_, _, _)
CutoffIndex(msgs, id, i) ==
    IF i > Len(msgs) THEN 0
    ELSE IF msgs[i].message_id = id THEN i
    ELSE CutoffIndex(msgs, id, i + 1)

RECURSIVE OfTypes(_, _)
OfTypes(msgs, message_types) ==
    IF msgs = <<>> THEN <<>>
    ELSE (IF Head(msgs).message_type \in message_types THEN <<Head(msgs)>> ELSE <<>>)
         \o OfTypes(Tail(msgs), message_types)

\* The filters of get_conversation_history: message_types ({} for None),
\* then before_message_id (0 for None)
Filtered(msgs, before_message_id, message_types) ==
    LET typed == IF message_types # {} THEN OfTypes(msgs, message_types) ELSE msgs
        cutoff_index == CutoffIndex(typed, before_message_id, 1)
    IN IF before_message_id # 0 /\ cutoff_index # 0
       THEN SubSeq(typed, 1, cutoff_index - 1)
       ELSE typed

\* get_conversation_history(session_id, limit, before_message_id,
\* message_types); limit is <<>> for None and <<n>> for the number n
GetConversationHistoryWith(kind, st, sid, limit, before_message_id, message_types) ==
    LET msgs == Filtered(MessagesOf(kind, st, sid), before_message_id,
                         message_types)
    IN IF limit # <<>> /\ limit[1] # 0
       THEN SliceFrom(msgs, 0 - limit[1])
       ELSE msgs

\* The sessions search_messages goes through, in the order of the keys of
\* self.messages (of the files of sessions_dir) given by order
SearchSessions(kind, st, user, session_ids, order) ==
    LET keys == IF kind = "memory" THEN DOMAIN st.messages ELSE DOMAIN st.sessions
        all == IF session_ids # <<>> THEN session_ids
               ELSE SelectSeq(order, LAMBDA sid : sid \in keys)
        OfUser(sid) ==
            IF kind = "memory"
            THEN \E i \in 1..Len(Get(st.user_sessions, user, <<>>)) :
                    Get(st.user_sessions, user, <<>>)[i] = sid
            ELSE /\ GetSession(kind, st, sid) # None
                 /\ GetSession(kind, st, sid).user_id = user
    IN IF user # NoUser THEN SelectSeq(all, OfUser) ELSE all

\* The inner loop of search_messages over the messages of one session
RECURSIVE SearchIn(_, _, _, _)
SearchIn(msgs, query_lower, limit, results) ==
    IF msgs = <<>> THEN results
    ELSE IF In(query_lower, LowerText(ContentStr(Head(msgs).content)))
    THEN IF Len(results) + 1 >= limit THEN Append(results, Head(msgs))
         ELSE SearchIn(Tail(msgs), query_lower, limit, Append(results, Head(msgs)))
    ELSE SearchIn(Tail(msgs), query_lower, limit, results)

\* The outer loop of search_messages over the sessions
RECURSIVE SearchAll(_, _, _, _, _, _)
SearchAll(kind, st, sessions, query_lower, limit, results) ==
    IF sessions = <<>> THEN results
    ELSE LET found == SearchIn(MessagesOf(kind, st, Head(sessions)), query_lower,
                               limit, results)
         IN IF Len(found) >= limit THEN found
            ELSE SearchAll(kind, st, Tail(sessions), query_lower, limit, found)

\* list.sort(key=timestamp, reverse=True): the stable sort, latest first
RECURSIVE SortByTimestampDesc(_)
SortByTimestampDesc(s) ==
    IF s = <<>> THEN <<>>
    ELSE LET rest == SortByTimestampDesc(SubSeq(s, 1, Len(s) - 1))
             x == s[Len(s)]
             k == Cardinality({i \in 1..Len(rest) : rest[i].timestamp >= x.timestamp})
         IN SubSeq(rest, 1, k) \o <<x>> \o SubSeq(rest, k + 1, Len(rest))

\* The results are returned in the order they were found.
SearchMessages_Unsorted(kind, st, query, user, session_ids, limit, order) ==
    SliceTo(SearchAll(kind, st, SearchSessions(kind, st, user, session_ids, order),
                      LowerText(query), limit, <<>>), limit)

\* search_messages(query, user_id, session_ids, limit)
SearchMessages(kind, st, query, user, session_ids, limit, order) ==
    SliceTo(SortByTimestampDesc(
                SearchAll(kind, st, SearchSessions(kind, st, user, session_ids, order),
                          LowerText(query), limit, <<>>)), limit)

\* What is saved before the queries: a question and a tool result
QueryInputs ==
    {<<"user", StrContent(<<"A">>), "">>,
     <<"user", ListContent(<<DictItem([tool_use_id |-> "t1", name |-> "search",
                                       key |-> "k", text |-> <<"DONE">>])>>),
       "tool_result">>}

QuerySessions == {LiteralSessionId("s1"), LiteralSessionId("s2")}

\* memory_save_message of the client
QuerySave(role, content, message_type) ==
    /\ method = ""
    /\ uuid_count < MaxStored
    /\ SessSave(role, content, message_type)

\* memory_switch_session of the client
QuerySwitch(sid) == method = "" /\ SessSwitch(sid)

QueryTick == method = "" /\ Tick

Queries == {<<"a">>, <<"Done">>}
SearchLimits == {-1, 0, 1, 50}
SessionOrders ==
    {<<LiteralSessionId("s1"), LiteralSessionId("s2")>>,
     <<LiteralSessionId("s2"), LiteralSessionId("s1")>>}

\* The call of search_messages on the store that was filled
CallSearchMessages(query, user, limit, order) ==
    /\ method = ""
    /\ method' = "search_messages"
    /\ arg' = [query |-> query, user_id |-> user, limit |-> limit]
    /\ out' = SearchMessages(store_kind, store, query, user, <<>>, limit, order)

HistoryLimits == {<<>>, <<0>>, <<1>>, <<2>>, <<-1>>}
BeforeIds == {0, 3}
TypeFilters == {{}, {MessageType("text")}}

\* The call of get_conversation_history on the store that was filled
CallGetConversationHistory(sid, limit, before_message_id, message_types) ==
    /\ method = ""
    /\ method' = "get_conversation_history"
    /\ arg' = [session_id |-> sid, limit |-> limit,
               before_message_id |-> before_message_id,
               message_types |-> message_types]
    /\ out' = GetConversationHistoryWith(store_kind, store, sid, limit,
                                         before_message_id, message_types)
(***************************************************************************)
(* _process_content_blocks_for_tool_use on the content of one Anthropic    *)
(* response (clients/anthropic_client.py).                                 *)
(***************************************************************************)
MaxBlocks == 3    \* content blocks of one response

\* str() of a list with one tool call whose input holds a ")":
\* [ToolUseBlock(id='t9', input={'q': 'f(x)'}, name='fetch', type='tool_use')]
StringifiedToolUseParen ==
    <<"[", "ToolUseBlock(", "id='t9'", "input={'q': 'f(x", ")", "'}",
      "name='fetch'", "type='tool_use'", ")", "]">>

\* ... whose input holds a "'", which repr() puts into double quotes:
\* [ToolUseBlock(id='t9', input={'q': "it's"}, name='fetch', type='tool_use')]
StringifiedToolUseQuote ==
    <<"[", "ToolUseBlock(", "id='t9'", "input={'q': \"it's\"}", "name='fetch'",
      "type='tool_use'", ")", "]">>

\* The content blocks a response is made of
ResponseBlocks ==
    {TextBlock(<<"done">>),
     TextBlock(StringifiedToolUse),
     TextBlock(StringifiedToolUseParen),
     TextBlock(StringifiedToolUseQuote),
     TextBlock(<<"see", "ToolUseBlock(", "docs">>),
     ToolUseBlock("tool_use", "t1", "search", "q=V")}

Responses == UNION {[1..n -> ResponseBlocks] : n \in 0..MaxBlocks}

\* ToolUseBlock(**tool_use_dict) raises a validation error when the
\* dictionary has no input (_extract_input_dict returned None) or its type
\* is not 'tool_use'
ToolUseBlockRaises(d) == d.input = "" \/ d.type # "tool_use"

\* The loop of _process_content_blocks_for_tool_use raises at some block
ProcessContentBlocksRaises(blocks) ==
    \E i \in 1..Len(blocks) :
        /\ blocks[i].type = "text"
        /\ ContainsToolUseBlock(blocks[i].text)
        /\ ParseToolUseBlockString(blocks[i].text).found
        /\ ToolUseBlockRaises(ParseToolUseBlockString(blocks[i].text))

\* One pass of the loop of ask_question on the response r, up to the test
\* for tool uses
CallProcessContentBlocks(r) ==
    /\ method' = "_process_content_blocks_for_tool_use"
    /\ arg' = r
    /\ out' = IF ProcessContentBlocksRaises(r) THEN Raises("ValidationError", <<>>)
              ELSE Returns(AnthropicReply(<<>>, r))
(***************************************************************************)
(* Concurrent SessionManager.create_session calls on the manager of one    *)
(* client (memory/session_manager.py:66-134).  A call runs as an asyncio   *)
(* task and is interleaved with the others where it is suspended: the      *)
(* in-memory store never suspends; the file store suspends in aiofiles     *)
(* when it reads an existing session file (get_session) and when it opens  *)
(* and writes one (save_session).                                          *)
(*   tasks[t].pc: "get"   suspended in get_session, existing holds what    *)
(*                        the read will give                               *)
(*                "open"  lock taken, suspended in aiofiles.open(.., 'w')  *)
(*                "write" the file is created, suspended in write / close  *)
(*                "done"  returned or raised, see result                   *)
(***************************************************************************)
Manager == "c1"          \* the client whose session manager is called

TaskIds == {"t1", "t2"}

CreateIds == {LiteralSessionId("s1"), LiteralSessionId("s2")}

\* The session create_session builds for task k
NewSession(k) ==
    ConversationSession(k.session_id, k.user_id, ProviderOf(Manager),
                        k.now, k.now, 0)

\* Some task has created the session file of sid and not closed it yet
BeingWritten(sid) ==
    \E u \in DOMAIN tasks : tasks[u].pc = "write" /\ tasks[u].session_id = sid

\* The task k returns or raises
Finished(t, k, result) ==
    tasks' = Put(tasks, t, [k EXCEPT !.pc = "done", !.result = result])

\* `finally: self._session_locks.pop(session_id, None)` after the save
SaveAndRelease(t, k) ==
    /\ store' = SaveSession(store_kind, store, NewSession(k))
    /\ active_sessions' = [active_sessions EXCEPT ![Manager] =
                              Put(@, k.session_id, CachedSession(NewSession(k)))]
    /\ session_locks' = session_locks \ {k.session_id}
    /\ Finished(t, k, "created")

\* create_session from the return of get_session up to the next suspension
CheckAndLock(t, k) ==
    IF k.existing /\ ~k.force_new
    THEN /\ Finished(t, k, "ValueError")
         /\ UNCHANGED <<store, active_sessions, session_locks>>
    ELSE IF k.session_id \in session_locks
    THEN /\ Finished(t, k, "RuntimeError")
         /\ UNCHANGED <<store, active_sessions, session_locks>>
    ELSE IF store_kind = "memory"
    THEN SaveAndRelease(t, k)
    ELSE /\ tasks' = Put(tasks, t, [k EXCEPT !.pc = "open"])
         /\ session_locks' = session_locks \cup {k.session_id}
         /\ UNCHANGED <<store, active_sessions>>

\* The task t starts create_session(session_id, user_id, force_new) and runs
\* to its first suspension.  get_session of the file store returns None at
\* once when there is no file, and otherwise reads the file in a worker
\* thread: a file that is being written is read empty (json.loads raises,
\* None is returned) or complete.
CreateSessionStart(t, session_id, user, force_new) ==
    /\ t \notin DOMAIN tasks
    /\ LET k == [pc |-> "get", session_id |-> session_id, user_id |-> user,
                 force_new |-> force_new, now |-> clock, existing |-> FALSE,
                 result |-> ""]
           stored == GetSession(store_kind, store, session_id) # None
       IN IF store_kind = "memory" \/ (~stored /\ ~BeingWritten(session_id))
          THEN CheckAndLock(t, [k EXCEPT !.existing = stored])
          ELSE /\ \E read \in IF BeingWritten(session_id) THEN BOOLEAN ELSE {TRUE} :
                     tasks' = Put(tasks, t, [k EXCEPT !.existing = read])
               /\ UNCHANGED <<store, active_sessions, session_locks>>
    /\ UNCHANGED <<store_kind, clock, uuid_count, memory_session_id, user_id,
                   provider_name, session_initialized, saved, created, deleted>>

\* The task t is resumed
CreateSessionResume(t) ==
    /\ t \in DOMAIN tasks
    /\ LET k == tasks[t]
       IN CASE k.pc = "get" -> CheckAndLock(t, k)
            [] k.pc = "open" ->
                  /\ tasks' = Put(tasks, t, [k EXCEPT !.pc = "write"])
                  /\ UNCHANGED <<store, active_sessions, session_locks>>
            [] k.pc = "write" -> SaveAndRelease(t, k)
            [] OTHER -> FALSE
    /\ UNCHANGED <<store_kind, clock, uuid_count, memory_session_id, user_id,
                   provider_name, session_initialized, saved, created, deleted>>
(***************************************************************************)
(* memory_search_conversations of the memory facade                        *)
(* (memory/memory_mixin.py:207-230) over a store two clients share.        *)
(***************************************************************************)
\* How the two clients are constructed: memory_session_id and user_id, both
\* optional
SearchConfigs ==
    {[c1 |-> [sid |-> LiteralSessionId("s1"), user |-> "u1"],
      c2 |-> [sid |-> LiteralSessionId("s2"), user |-> "u2"]],
     [c1 |-> [sid |-> LiteralSessionId("s1"), user |-> "u1"],
      c2 |-> [sid |-> None, user |-> NoUser]],
     [c1 |-> [sid |-> None, user |-> "u1"],
      c2 |-> [sid |-> LiteralSessionId("s2"), user |-> "u1"]]}

SearchMemInit ==
    /\ store_kind \in {"memory", "file"}
    /\ store = EmptyStore
    /\ clock = 0
    /\ uuid_count = 0
    /\ \E cfg \in SearchConfigs :
          /\ memory_session_id = [c \in Clients |-> cfg[c].sid]
          /\ user_id = [c \in Clients |-> cfg[c].user]
    /\ provider_name = [c \in Clients |-> ProviderOf(c)]
    /\ session_initialized = [c \in Clients |-> FALSE]
    /\ active_sessions = [c \in Clients |-> EmptyDict]
    /\ saved = EmptyDict
    /\ created = EmptyDict
    /\ deleted = EmptyDict

\* memory_search_conversations(query, limit, all_user_sessions) on the
\* facade ms
SearchConversationsIn(ms, query, limit, all_user_sessions, order) ==
    LET session_ids == IF ~all_user_sessions /\ ms.sid # None
                       THEN <<ms.sid>> ELSE <<>>
    IN SearchMessages(ms.kind, ms.store, query, ms.user, session_ids, limit, order)

\* memory_save_message of client c before the searches
SearchSave(c, role, content) ==
    /\ method = ""
    /\ uuid_count + MemoryInitializeSession(c).uuids < MaxStored
    /\ MemorySaveMessage(c, role, content)

\* The call of memory_search_conversations by client c
CallSearchConversations(c, query, limit, all_user_sessions, order) ==
    /\ method = ""
    /\ method' = "memory_search_conversations"
    /\ arg' = [client |-> c, query |-> query, limit |-> limit,
               all_user_sessions |-> all_user_sessions]
    /\ out' = SearchConversationsIn(MemState(c), query, limit,
                                    all_user_sessions, order)
(***************************************************************************)
(* The two stores side by side: the same calls are made on an              *)
(* InMemoryStore and on a FileMemoryStore that both start empty, and what  *)
(* each call returns is kept (memory/stores/memory_memory.py,              *)
(* file_memory.py).                                                        *)
(***************************************************************************)
MaxOps == 3    \* store calls in a row

EquivSession == LiteralSessionId("s1")

\* A call on a store
StoreCall(op, user, content) == [op |-> op, user |-> user, content |-> content]

StoreCalls ==
    {StoreCall("save_session", "u1", <<>>),
     StoreCall("save_message", "u1", StrContent(<<"A">>)),
     StoreCall("save_message", "u1", ListContent(<<TextBlock(<<"A">>)>>)),
     StoreCall("update_session_activity", NoUser, <<>>),
     StoreCall("delete_session", NoUser, <<>>),
     StoreCall("get_session", NoUser, <<>>),
     StoreCall("get_conversation_history", NoUser, <<>>),
     StoreCall("search_messages", NoUser, <<>>),
     StoreCall("search_messages", "u1", <<>>),
     StoreCall("get_user_sessions", "u1", <<>>)}

\* The call c, made at the time now as the n-th call, on the store st of
\* class kind: the store afterwards and the value returned
ApplyStoreCall(kind, st, c, now, n) ==
    LET sid == EquivSession
        m == UniversalMessage(MessageRole("user"), c.content, MessageType("text"),
                              now, n, sid, "anthropic", c.user)
    IN CASE c.op = "save_session" ->
              [st |-> SaveSession(kind, st, ConversationSession(sid, c.user,
                                              "anthropic", now, now, 0)),
               returned |-> <<TRUE>>]
         [] c.op = "save_message" ->
              [st |-> SaveMessage(kind, st, m), returned |-> <<SaveMessageOk(m)>>]
         [] c.op = "update_session_activity" ->
              [st |-> UpdateSessionActivity(kind, st, sid, now),
               returned |-> <<GetSession(kind, st, sid) # None>>]
         [] c.op = "delete_session" ->
              [st |-> DeleteSession(kind, st, sid), returned |-> <<TRUE>>]
         [] c.op = "get_session" ->
              [st |-> st, returned |-> <<GetSession(kind, st, sid)>>]
         [] c.op = "get_conversation_history" ->
              [st |-> st, returned |-> GetConversationHistory(kind, st, sid, 0)]
         [] c.op = "search_messages" ->
              [st |-> st,
               returned |-> SearchMessages(kind, st, <<"a">>, c.user, <<>>, 50,
                                           <<sid>>)]
         [] OTHER ->
              [st |-> st, returned |-> <<GetUserSessions(kind, st, c.user)>>]

\* The two stores before the first call
BothEmpty ==
    [memory |-> [st |-> EmptyStore, returned |-> <<>>],
     file |-> [st |-> EmptyStore, returned |-> <<>>]]

\* One call made on both stores
CallBothStores(c) ==
    /\ Len(arg) < MaxOps
    /\ \E cur \in {IF method = "" THEN BothEmpty ELSE out} :
          out' = [memory |-> ApplyStoreCall("memory", cur.memory.st, c,
                                            Len(arg), Len(arg) + 1),
                  file |-> ApplyStoreCall("file", cur.file.st, c,
                                          Len(arg), Len(arg) + 1)]
    /\ method' = c.op
    /\ arg' = Append(arg, c)
(***************************************************************************)
(* Specifications.                                                         *)
(***************************************************************************)
LoopInit ==
    /\ adapter \in Adapters
    /\ max_history_length \in HistoryLengths
    /\ messages = <<>>
    /\ pc = "ready"
    /\ tool_uses = <<>>
    /\ response_content = <<>>
    /\ returned = <<>>
    /\ rounds = 0
    /\ turns = 0
    /\ base = <<>>
    /\ question = <<>>
    /\ replyLog = <<>>
    /\ dispatchLog = <<>>

\* A client whose orchestration loop is not run
LoopUnused ==
    /\ max_history_length = DefaultMaxHistoryLength
    /\ messages = <<>>
    /\ pc = "ready"
    /\ tool_uses = <<>>
    /\ response_content = <<>>
    /\ returned = <<>>
    /\ rounds = 0
    /\ turns = 0
    /\ base = <<>>
    /\ question = <<>>
    /\ replyLog = <<>>
    /\ dispatchLog = <<>>

\* A client that is asked nothing
LoopIdle == adapter = "anthropic" /\ LoopUnused

AskQuestionStep ==
    /\ \E q \in Questions : AskQuestion(q)
    /\ UNCHANGED <<memVars, connVars, turnVars, sessVars, callVars, taskVars>>

ModelReplyStep ==
    /\ \E r \in ProviderReplies(rounds) : ModelReply(r)
    /\ UNCHANGED <<memVars, connVars, turnVars, sessVars, callVars, taskVars>>

DispatchStep ==
    /\ \E os \in [1..Len(tool_uses) -> ToolOutcomes] : Dispatch(os)
    /\ UNCHANGED <<memVars, connVars, turnVars, sessVars, callVars, taskVars>>

Next == AskQuestionStep \/ ModelReplyStep \/ DispatchStep

Init == LoopInit /\ MemIdle /\ ConnIdle /\ TurnIdle /\ SessIdle /\ CallIdle /\ TaskIdle

\* The orchestration loop of one client without memory
Spec == Init /\ [][Next]_vars

\* The vendor request and every tool invocation return: a started step of the
\* loop is eventually taken.
FairSpec == Spec /\ WF_vars(ModelReplyStep) /\ WF_vars(DispatchStep)

\* The facade operations of the clients, and the passing of time
MemNext ==
    \/ \E c \in Clients : \E in \in SaveInputs :
          MemorySaveMessage(c, in[1], in[2]) /\ UNCHANGED <<loopVars, connVars, turnVars, sessVars, callVars, taskVars>>
    \/ \E c \in Clients :
          MemoryLoadHistory(c) /\ UNCHANGED <<loopVars, connVars, turnVars, sessVars, callVars, taskVars>>
    \/ \E c \in Clients :
          MemoryClearSession(c) /\ UNCHANGED <<loopVars, connVars, turnVars, sessVars, callVars, taskVars>>
    \/ \E c \in Clients : \E sid \in SwitchTargets : \E create \in BOOLEAN :
          MemorySwitchSession(c, sid, create) /\ UNCHANGED <<loopVars, connVars, turnVars, sessVars, callVars, taskVars>>
    \/ \E c \in Clients : \E days \in RetentionDays :
          MemoryCleanupOldSessions(c, days) /\ UNCHANGED <<loopVars, connVars, turnVars, sessVars, callVars, taskVars>>
    \/ Tick /\ UNCHANGED <<loopVars, connVars, turnVars, sessVars, callVars, taskVars>>

MemSpecInit == MemInit /\ LoopIdle /\ ConnIdle /\ TurnIdle /\ SessIdle /\ CallIdle /\ TaskIdle

\* Two clients that use the memory facade over one shared store
MemSpec == MemSpecInit /\ [][MemNext]_vars

\* The calls of the overlay, and the failure of its transport
ConnNext ==
    \/ \E env \in EstablishEnvs :
          Establish(env) /\ UNCHANGED <<loopVars, memVars, turnVars, sessVars, callVars, taskVars>>
    \/ \E aclose_ok \in BOOLEAN :
          Close(aclose_ok) /\ UNCHANGED <<loopVars, memVars, turnVars, sessVars, callVars, taskVars>>
    \/ \E auto \in BOOLEAN : \E env \in EstablishEnvs :
          Ask(auto, env) /\ UNCHANGED <<loopVars, memVars, turnVars, sessVars, callVars, taskVars>>
    \/ TransportFails /\ UNCHANGED <<loopVars, memVars, turnVars, sessVars, callVars, taskVars>>

ConnSpecInit ==
    ConnIdle /\ adapter \in Adapters /\ LoopUnused /\ MemIdle /\ TurnIdle /\ SessIdle /\ CallIdle /\ TaskIdle

\* One persistent client of any adapter class and its tool server
ConnSpec == ConnSpecInit /\ [][ConnNext]_vars


\* The steps of ask_question on the client with memory, and the switch of
\* its session between two calls
TurnNext ==
    \/ \E q \in Questions : \E f \in TurnFlags :
          TurnAsk(q, f[1], f[2], f[3]) /\ UNCHANGED <<connVars, sessVars, callVars, taskVars>>
    \/ \E connect_ok \in BOOLEAN :
          TurnSaveUser(connect_ok) /\ UNCHANGED <<connVars, sessVars, callVars, taskVars>>
    \/ \E r \in ProviderReplies(rounds) :
          TurnReply(r) /\ UNCHANGED <<connVars, sessVars, callVars, taskVars>>
    \/ \E os \in [1..Len(tool_uses) -> TurnOutcomes] :
          TurnDispatch(os) /\ UNCHANGED <<connVars, sessVars, callVars, taskVars>>
    \/ \E sid \in SwitchTargets :
          TurnSwitchSession(sid) /\ UNCHANGED <<connVars, sessVars, callVars, taskVars>>

TurnSpecInit ==
    adapter \in Adapters /\ LoopUnused /\ TurnMemInit /\ ConnIdle /\ TurnIdle /\ SessIdle /\ CallIdle /\ TaskIdle

\* One client that is asked with memory
TurnSpec == TurnSpecInit /\ [][TurnNext]_vars

(***************************************************************************)
(* A conversation persisted by an Anthropic client and continued by a      *)
(* client of any adapter class over the same store and session, with       *)
(* requests in which the vendor SDK may raise.                             *)
(***************************************************************************)
CrossNext ==
    \/ \E in \in WriterInputs :
          WriterSave(in[1], in[2]) /\ UNCHANGED <<connVars, sessVars, callVars, taskVars>>
    \/ \E q \in Questions : \E f \in CrossFlags :
          TurnAsk(q, f[1], f[2], f[3]) /\ UNCHANGED <<connVars, sessVars, callVars, taskVars>>
    \/ TurnSaveUser(TRUE) /\ UNCHANGED <<connVars, sessVars, callVars, taskVars>>
    \/ \E r \in ProviderReplies(rounds) :
          TurnReply(r) /\ UNCHANGED <<connVars, sessVars, callVars, taskVars>>
    \/ TurnSendRaises(VendorError) /\ UNCHANGED <<connVars, sessVars, callVars, taskVars>>
    \/ TurnCancel /\ UNCHANGED <<connVars, sessVars, callVars, taskVars>>
    \/ \E os \in [1..Len(tool_uses) -> TurnOutcomes] :
          TurnDispatch(os) /\ UNCHANGED <<connVars, sessVars, callVars, taskVars>>

CrossSpecInit ==
    adapter \in Adapters /\ LoopUnused /\ CrossMemInit /\ ConnIdle /\ TurnIdle /\ SessIdle /\ CallIdle /\ TaskIdle

CrossSpec == CrossSpecInit /\ [][CrossNext]_vars

(***************************************************************************)
(* The session manager of one client.                                      *)
(***************************************************************************)
SessNext ==
    \/ \E u \in UniqueParts : \E context \in Contexts :
          SessGenerate(u, context) /\ UNCHANGED <<loopVars, connVars, turnVars, callVars, taskVars>>
    \/ \E u \in UniqueParts :
          SessCreate(u) /\ UNCHANGED <<loopVars, connVars, turnVars, callVars, taskVars>>
    \/ \E in \in SessSaveInputs :
          SessSave(in[1], in[2], in[3]) /\ UNCHANGED <<loopVars, connVars, turnVars, callVars, taskVars>>
    \/ \E src \in CloneSources : \E new \in CloneTargets : \E u \in UniqueParts :
          SessClone(src, new, u) /\ UNCHANGED <<loopVars, connVars, turnVars, callVars, taskVars>>
    \/ \E sid \in SessSwitchTargets :
          SessSwitch(sid) /\ UNCHANGED <<loopVars, connVars, turnVars, callVars, taskVars>>

\* One client with the session s1 over an empty store of either class
SessSpecInit == LoopIdle /\ TurnMemInit /\ ConnIdle /\ TurnIdle /\ SessIdle /\ CallIdle /\ TaskIdle

SessSpec == SessSpecInit /\ [][SessNext]_vars

(***************************************************************************)
(* Clients from their construction to their first memory calls.            *)
(***************************************************************************)
CtorNext ==
    \/ \E sid \in ConfiguredSessionIds : \E user \in Users :
          MemoryMixinInit(Ordinary, sid, user) /\ UNCHANGED <<loopVars, connVars, turnVars, callVars, taskVars>>
    \/ \E sid \in ConfiguredSessionIds : \E user \in Users : \E u \in UniqueParts :
          PersistentClientInit(Persistent, sid, user, u) /\ UNCHANGED <<loopVars, connVars, turnVars, callVars, taskVars>>
    \/ \E c \in Clients : \E in \in SaveInputs :
          Constructed(c) /\ MemorySaveMessage(c, in[1], in[2]) /\ UNCHANGED <<loopVars, connVars, turnVars, sessVars, callVars, taskVars>>
    \/ \E c \in Clients :
          Constructed(c) /\ MemoryLoadHistory(c) /\ UNCHANGED <<loopVars, connVars, turnVars, sessVars, callVars, taskVars>>

CtorSpecInit == CtorInit /\ LoopIdle /\ ConnIdle /\ TurnIdle /\ SessIdle /\ CallIdle /\ TaskIdle

CtorSpec == CtorSpecInit /\ [][CtorNext]_vars

(***************************************************************************)
(* The entry points that take a question, called on a fresh client.        *)
(***************************************************************************)
ValNext ==
    \E m \in AskMethods : \E q \in AskArguments : \E mh \in BOOLEAN :
        CallAsk(m, q, mh) /\ UNCHANGED <<memVars, connVars, sessVars, taskVars>>

ValSpecInit ==
    adapter \in Adapters /\ LoopUnused /\ MemIdle /\ ConnIdle /\ TurnIdle /\ SessIdle /\ CallIdle /\ TaskIdle

ValSpec == ValSpecInit /\ [][ValNext]_vars

(***************************************************************************)
(* The factory's provider detection on configurations, and the transport   *)
(* of the client that is constructed.                                      *)
(***************************************************************************)
DetectNext ==
    \/ \E config \in Configs :
          CallDetectProvider(config)
          /\ UNCHANGED <<loopVars, memVars, connVars, turnVars, sessVars, taskVars>>
    \/ \E a \in TransportClasses : \E sc \in ServerConfigs : \E cc \in ClientContexts :
          CallConnectionContext(a, sc, cc)
          /\ UNCHANGED <<loopVars, memVars, connVars, turnVars, sessVars, taskVars>>

DetectSpecInit == LoopIdle /\ MemIdle /\ ConnIdle /\ TurnIdle /\ SessIdle /\ CallIdle /\ TaskIdle

DetectSpec == DetectSpecInit /\ [][DetectNext]_vars

(***************************************************************************)
(* One client fills a store, then the store is queried.                    *)
(***************************************************************************)
QueryNext ==
    \/ \E in \in QueryInputs :
          QuerySave(in[1], in[2], in[3])
          /\ UNCHANGED <<loopVars, connVars, turnVars, callVars, taskVars>>
    \/ \E sid \in QuerySessions :
          QuerySwitch(sid) /\ UNCHANGED <<loopVars, connVars, turnVars, callVars, taskVars>>
    \/ QueryTick /\ UNCHANGED <<loopVars, connVars, turnVars, sessVars, callVars, taskVars>>
    \/ \E query \in Queries : \E user \in {NoUser, "u1"} :
       \E limit \in SearchLimits : \E order \in SessionOrders :
          CallSearchMessages(query, user, limit, order)
          /\ UNCHANGED <<loopVars, memVars, connVars, turnVars, sessVars, taskVars>>
    \/ \E sid \in QuerySessions : \E limit \in HistoryLimits :
       \E before \in BeforeIds : \E types \in TypeFilters :
          CallGetConversationHistory(sid, limit, before, types)
          /\ UNCHANGED <<loopVars, memVars, connVars, turnVars, sessVars, taskVars>>

QuerySpecInit == LoopIdle /\ TurnMemInit /\ ConnIdle /\ TurnIdle /\ SessIdle /\ CallIdle /\ TaskIdle

QuerySpec == QuerySpecInit /\ [][QueryNext]_vars

(***************************************************************************)
(* The handling of the content of one Anthropic response.                  *)
(***************************************************************************)
ParseNext ==
    \E r \in Responses :
        CallProcessContentBlocks(r)
        /\ UNCHANGED <<loopVars, memVars, connVars, turnVars, sessVars, taskVars>>

ParseSpecInit == LoopIdle /\ MemIdle /\ ConnIdle /\ TurnIdle /\ SessIdle /\ CallIdle /\ TaskIdle

ParseSpec == ParseSpecInit /\ [][ParseNext]_vars

(***************************************************************************)
(* Tasks that call create_session on one session manager at the same time. *)
(***************************************************************************)
RaceNext ==
    \/ \E t \in TaskIds : \E sid \in CreateIds : \E user \in Users : \E force_new \in BOOLEAN :
          CreateSessionStart(t, sid, user, force_new) /\ UNCHANGED <<loopVars, connVars, turnVars, sessVars, callVars>>
    \/ \E t \in TaskIds :
          CreateSessionResume(t) /\ UNCHANGED <<loopVars, connVars, turnVars, sessVars, callVars>>
    \/ Tick /\ UNCHANGED <<loopVars, connVars, turnVars, sessVars, callVars, taskVars>>

RaceSpecInit == MemInit /\ LoopIdle /\ ConnIdle /\ TurnIdle /\ SessIdle /\ CallIdle /\ TaskIdle

RaceSpec == RaceSpecInit /\ [][RaceNext]_vars

(***************************************************************************)
(* Two clients that save to one store and search it.                       *)
(***************************************************************************)
SearchNext ==
    \/ \E c \in Clients : \E in \in SaveInputs :
          SearchSave(c, in[1], in[2])
          /\ UNCHANGED <<loopVars, connVars, turnVars, sessVars, callVars, taskVars>>
    \/ \E c \in Clients : \E query \in Queries : \E limit \in {1, 20} :
       \E all_user_sessions \in BOOLEAN : \E order \in SessionOrders :
          CallSearchConversations(c, query, limit, all_user_sessions, order)
          /\ UNCHANGED <<loopVars, memVars, connVars, turnVars, sessVars, taskVars>>

SearchSpecInit == SearchMemInit /\ LoopIdle /\ ConnIdle /\ TurnIdle /\ SessIdle /\ CallIdle /\ TaskIdle

SearchSpec == SearchSpecInit /\ [][SearchNext]_vars

(***************************************************************************)
(* One Anthropic client with a short max_history_length.                   *)
(***************************************************************************)
TrimNext ==
    \/ \E q \in Questions : \E f \in TrimFlags :
          TurnAsk(q, f[1], f[2], f[3]) /\ UNCHANGED <<connVars, sessVars, callVars, taskVars>>
    \/ TurnSaveUser(TRUE) /\ UNCHANGED <<connVars, sessVars, callVars, taskVars>>
    \/ \E r \in ProviderReplies(rounds) :
          TurnReply(r) /\ UNCHANGED <<connVars, sessVars, callVars, taskVars>>
    \/ \E os \in [1..Len(tool_uses) -> TurnOutcomes] :
          TurnDispatch(os) /\ UNCHANGED <<connVars, sessVars, callVars, taskVars>>

TrimSpecInit == TrimLoopInit /\ TurnMemInit /\ ConnIdle /\ TurnIdle /\ SessIdle /\ CallIdle /\ TaskIdle

TrimSpec == TrimSpecInit /\ [][TrimNext]_vars

(***************************************************************************)
(* The same calls on both stores.                                          *)
(***************************************************************************)
EquivNext ==
    \E c \in StoreCalls :
        CallBothStores(c)
        /\ UNCHANGED <<loopVars, memVars, connVars, turnVars, sessVars, taskVars>>

EquivSpecInit == LoopIdle /\ MemIdle /\ ConnIdle /\ TurnIdle /\ SessIdle /\ CallIdle /\ TaskIdle

EquivSpec == EquivSpecInit /\ [][EquivNext]_vars
(***************************************************************************)
(* Properties of the orchestration loop.                                   *)
(***************************************************************************)
\* A text block that holds a well-formed stringified tool call.
IsStringifiedToolCall(b) == b.type = "text" /\ b.text = StringifiedToolUse

\* The reply r asks adapter a for no tool: it has no tool-call block and, for
\* Anthropic, no text block holding a stringified tool call.
ZeroToolCalls(a, r) ==
    \A i \in 1..Len(r) : /\ r[i].type # "tool_use"
                         /\ a = "anthropic" => ~IsStringifiedToolCall(r[i])

EntryShape(e) ==
    <<e.role,
      CASE e.kind = "tool_result" -> "tool_result"
        [] e.kind = "blocks" /\ ToolUses(e.blocks) # <<>> -> "tool_use"
        [] OTHER -> "text">>

Shapes(buf) == [i \in 1..Len(buf) |-> EntryShape(buf[i])]

\* The shapes a turn with k tool rounds appends, as the claim lists them.
RECURSIVE ToolPairs(_)
ToolPairs(k) == IF k = 0 THEN <<>>
                ELSE <<<<"assistant", "tool_use">>, <<"user", "tool_result">>>>
                     \o ToolPairs(k - 1)

TurnShapes(k) == <<<<"user", "text">>>> \o ToolPairs(k) \o <<<<"assistant", "text">>>>

\* The text of the model in the replies of the running turn: every text
\* block that is not a stringified tool call.
ModelText ==
    Concat([i \in 1..Len(replyLog) |->
              Concat([j \in 1..Len(replyLog[i]) |->
                        IF replyLog[i][j].type = "text"
                           /\ ~IsStringifiedToolCall(replyLog[i][j])
                        THEN replyLog[i][j].text ELSE <<>>])])

\* The buffer holds what the turn appended in the claimed order.
TurnAppendedInOrder ==
    Shapes(messages) = TrimHistory(Shapes(base) \o TurnShapes(Len(dispatchLog)),
                                   max_history_length)

\* C2: a turn of the Anthropic adapter with k tool rounds appends the user
\* utterance, k pairs (assistant tool calls, user tool results) and the final
\* assistant text, in this order, and returns the model's text.
C2_TurnOrderAndReturn ==
    (adapter = "anthropic" /\ pc = "done")
        => /\ TurnAppendedInOrder
           /\ returned = Strip(ModelText)

\* The texts of the results the last dispatched round put into the buffer.
InjectedResults ==
    LET n == Len(tool_uses)
    IN IF adapter = "openai"
       THEN [i \in 1..n |->
               LET e == messages[Len(messages) - n + i]
               IN [tool_use_id |-> "", text |-> SubSeq(e.text, 3, Len(e.text))]]
       ELSE [i \in 1..Len(messages[Len(messages)].results) |->
               LET r == messages[Len(messages)].results[i]
               IN [tool_use_id |-> r.tool_use_id, text |-> r.text]]

ToolFailed(o) == o.kind \in {"raise", "errcontent"}

\* C3: after a dispatched round every invocation has its result in the buffer
\* and the loop is at the next SEND; the result of an invocation that raised
\* or returned error content is tied to the invocation's id and its text
\* begins with `Error:`.
C3_ToolFailureBecomesErrorResult ==
    (pc = "send" /\ dispatchLog # <<>>)
        => LET os == dispatchLog[Len(dispatchLog)]
           IN /\ Len(InjectedResults) = Len(tool_uses)
              /\ \A i \in 1..Len(tool_uses) :
                    ToolFailed(os[i])
                        => /\ InjectedResults[i].tool_use_id = tool_uses[i].id
                           /\ InjectedResults[i].text # <<>>
                           /\ InjectedResults[i].text[1] = "Error:"

\* The trailing n entries of s; all of s when it has no more than n.
Trailing(s, n) == IF Len(s) <= n THEN s ELSE SubSeq(s, Len(s) - n + 1, Len(s))

\* The step that ends a turn leaves the buffer trimmed to n entries.
TrimmedOnDone(n) ==
    (pc = "send" /\ pc' = "done")
        => /\ Len(messages') <= n
           /\ \E r \in ProviderReplies(rounds) :
                 /\ replyLog' = Append(replyLog, r)
                 /\ messages' = Trailing(ReplyEffect(adapter, messages, r).buf, n)

\* C16: when a turn becomes done, for every configured max_history_length,
\* the buffer holds at most max_history_length entries and is the trailing
\* max_history_length entries of the buffer as it was just before trimming
\* (the buffer after the last reply was appended).
C16_TrimmedAfterDone == [][TrimmedOnDone(max_history_length)]_vars

(***************************************************************************)
(* Properties of the memory subsystem.                                     *)
(***************************************************************************)
\* get_conversation_history(sid) without filters
History(sid) == GetConversationHistory(store_kind, store, sid, 0)

\* The session ids the store or the history variables know
KnownSessionIds ==
    (DOMAIN store.messages) \cup (DOMAIN store.sessions) \cup (DOMAIN saved)

MessageIds(l) == {l[i].message_id : i \in 1..Len(l)}

\* C4: for both stores get_conversation_history(s) without filters returns
\* the messages saved to session s in the order of the save_message calls, and
\* right after save_message(m) returned true m is the last element of
\* get_conversation_history(m.session_id).
C4_AppendOrder ==
    \A sid \in KnownSessionIds :
        LET sv == Get(saved, sid, <<>>)
        IN /\ History(sid) = sv
           /\ sv # <<>> => History(sid)[Len(History(sid))] = sv[Len(sv)]

C6_SessionBeforeMessage ==
    \A sid \in DOMAIN store.messages :
        store.messages[sid] # <<>> => GetSession(store_kind, store, sid) # None

\* C7: for both stores, after delete_session(s) the history of s is empty and
\* get_session(s) is null, and the history and the session record of every
\* other session are what they were.
C7_DeleteCascades ==
    [][\A s \in DOMAIN deleted' :
          /\ GetConversationHistory(store_kind, store', s, 0) = <<>>
          /\ GetSession(store_kind, store', s) = None
          /\ \A t \in KnownSessionIds \ DOMAIN deleted' :
                /\ GetConversationHistory(store_kind, store', t, 0) = History(t)
                /\ GetSession(store_kind, store', t) = GetSession(store_kind, store, t)]_vars

\* C7 witness: a session that held messages has been deleted while another
\* session holds messages.
C7_Witness ==
    \E s \in DOMAIN deleted :
        /\ deleted[s] >= 1
        /\ \E t \in DOMAIN store.sessions : t # s /\ History(t) # <<>>


\* What ensure_session_exists(sid) does when client c calls it in the
\* current state, and what a second call does after it.
EnsureOnce(c, sid) ==
    EnsureSessionExists(store_kind, store, active_sessions[c], sid, user_id[c],
                        provider_name[c], clock)

EnsureTwice(c, sid) ==
    EnsureSessionExists(store_kind, EnsureOnce(c, sid).store,
                        EnsureOnce(c, sid).cache, sid, user_id[c],
                        provider_name[c], clock)

\* C19: in every state, ensure_session_exists(id) returns a session; when
\* the store holds a session id the store is left unchanged, otherwise a new
\* session is created and persisted; in both cases the store's
\* get_session(id) is not None afterwards, and a second call returns the
\* same session and leaves the store as the first call left it.
C19_EnsureIdempotent ==
    \A c \in Clients : \A sid \in {LiteralSessionId("s1"), LiteralSessionId("s2")} :
       LET e1 == EnsureOnce(c, sid)
           e2 == EnsureTwice(c, sid)
       IN /\ ~e1.raised /\ e1.session # None
          /\ IF GetSession(store_kind, store, sid) # None
             THEN e1.store = store /\ ~e1.created
             ELSE e1.created /\ e1.store = SaveSession(store_kind, store,
                     ConversationSession(sid, user_id[c], provider_name[c],
                                         clock, clock, 0))
          /\ GetSession(store_kind, e1.store, sid) # None
          /\ ~e2.raised /\ e2.session = e1.session /\ e2.store = e1.store

\* What memory_switch_session(sid, create) does when client c calls it in
\* the current state
SwitchOnce(c, sid, create) == SwitchSessionIn(MemState(c), sid, create)

\* The messages stored for session sid in the facade ms
StoredIn(ms, sid) == GetConversationHistory(ms.kind, ms.store, sid, 0)

\* C20: in every state, when memory_switch_session(new_id) of a client
\* succeeds, the messages stored for the session that was current are
\* unchanged, the next memory_save_message appends its message to the history
\* of new_id and to no other, and the next memory_load_history reads the
\* history of new_id; when it is called with create_if_not_exists=False and
\* the store holds no session new_id, it returns False and leaves the client's
\* current session id and the store unchanged.
C20_SwitchSession ==
    \A c \in Clients : \A sid \in SwitchTargets : \A create \in BOOLEAN :
       LET r == SwitchOnce(c, sid, create)
           old == memory_session_id[c]
           s == SaveMessageIn(r.ms, "user", StrContent(<<"A">>), "")
       IN /\ r.ok
             => /\ r.ms.sid = sid
                /\ old # None => StoredIn(r.ms, old) = History(old)
                /\ s.sid = sid
                /\ Len(StoredIn(s, sid)) = Len(StoredIn(r.ms, sid)) + 1
                /\ StoredIn(s, sid)[Len(StoredIn(s, sid))].session_id = sid
                /\ \A o \in KnownSessionIds \ {sid} :
                      StoredIn(s, o) = History(o)
                /\ LoadHistoryIn(r.ms).ms.sid = sid
                /\ LoadHistoryIn(r.ms).messages = StoredIn(r.ms, sid)
          /\ (~create /\ GetSession(store_kind, store, sid) = None)
             => /\ ~r.ok
                /\ r.ms.sid = old
                /\ r.ms.store = store

\* The position of call in the sequence calls, 0 when it is not made
CallIndex(calls, call) ==
    IF \E k \in 1..Len(calls) : calls[k] = call
    THEN CHOOSE k \in 1..Len(calls) : calls[k] = call
    ELSE 0

\* C32: in every state, a memory_save_message of a client calls save_message
\* only on a session that exists (the session manager has ensured it), calls
\* update_session_activity only after a save_message that succeeded, and
\* returns a boolean: false, and no exception, when a step fails.
C32_SaveOrder ==
    \A c \in Clients : \A in \in SaveInputs :
       LET s == SaveCalls(MemState(c), in[1], in[2])
           save == CallIndex(s.calls, "save_message")
           update == CallIndex(s.calls, "update_session_activity")
       IN /\ ~s.raises
          /\ save # 0
             => GetSession(s.at_save.kind, s.at_save.store, s.at_save.sid) # None
          /\ update # 0 => save # 0 /\ save < update /\ s.returns
          /\ s.returns => update # 0

\* C32, when the session record is there: the calls are in the order
\* ensure_session_exists (first save only), save_message,
\* update_session_activity.
C32_OrderWhenSessionExists ==
    \A c \in Clients : \A in \in SaveInputs :
       LET s == SaveCalls(MemState(c), in[1], in[2])
       IN s.calls \in {<<"ensure_session_exists", "save_message",
                         "update_session_activity">>,
                       <<"save_message", "update_session_activity">>,
                       <<"ensure_session_exists">>, <<>>}

(***************************************************************************)
(* Properties of the persistent overlay.                                   *)
(***************************************************************************)
\* The connection is healthy: a probe of it would pass.
Healthy ==
    /\ connection_active /\ mcp_session_id # 0
    /\ session # 0 /\ session \in alive

\* C8: while the persistent connection is healthy, a call of
\* establish_persistent_connection or of ask_with_persistent_session reuses
\* it: no transport is opened, the stored mcp_session_id stays (and is what
\* establish returns), the call succeeds and is_connected is true after it.
C8_HealthyConnectionReused ==
    [][(Healthy /\ lastCall'.call \in {"establish", "ask"})
          => /\ transports_opened' = transports_opened
             /\ persistent_exit_stack' = persistent_exit_stack
             /\ mcp_session_id' = mcp_session_id
             /\ connection_active' /\ mcp_session_id' # 0
             /\ ~lastCall'.raised
             /\ lastCall'.call = "establish" => lastCall'.returned = mcp_session_id]_vars

\* C8 witness: two turns in a row and a further establish call have used the
\* one transport that was ever opened.
C8_Witness ==
    /\ lastCall.call = "establish" /\ lastCall.reused
    /\ delegated >= 2
    /\ transports_opened = 1
    /\ connection_active /\ mcp_session_id = 1

\* C9: in ask_with_persistent_session, for either value of
\* auto_establish_connection, a connected client probes its connection
\* (list_tools) before the turn; a failed probe marks the connection inactive
\* and then, with auto_establish_connection, the connection is established
\* anew before the turn is delegated, and without it the call raises.
C9_ProbeBeforeEachTurn ==
    lastCall.call = "ask"
        => /\ lastCall.connected => lastCall.probed
           /\ (lastCall.probed /\ ~lastCall.probe_ok)
                 => /\ lastCall.marked_inactive
                    /\ IF lastCall.auto
                       THEN lastCall.raised \/ lastCall.established
                       ELSE lastCall.raised

\* C10: the cleanup stack of the client never holds more than one open
\* transport context: establish_persistent_connection closes what was opened
\* before it opens a transport, on every path to re-establishment.
C10_OneOpenTransport == Len(persistent_exit_stack) <= 1


\* C11: after close_persistent_connection returns, for each of the persistent
\* clients (Anthropic, OpenAI, Gemini) and whether or not closing the exit
\* stack raised, is_connected is false, mcp_session_id is null, the exit stack
\* holds nothing, and an establish_persistent_connection that meets no failure
\* succeeds on the same instance.
C11_CloseAlwaysResets ==
    lastCall.call = "close"
        => /\ ~IsConnected(Conn)
           /\ mcp_session_id = 0
           /\ persistent_exit_stack = <<>>
           /\ \A aclose_ok \in BOOLEAN :
                 LET r == EstablishPersistentConnection(
                              Conn, [fail |-> "none", aclose_ok |-> aclose_ok])
                 IN ~r.raised /\ IsConnected(r.k)

\* C12: when establish_persistent_connection raises, whatever step failed,
\* the partial state is torn down: is_connected is false, mcp_session_id is
\* null, the exit stack holds no transport context, and an
\* establish_persistent_connection that meets no failure then succeeds.
C12_FailedEstablishTornDown ==
    (lastCall.call = "establish" /\ lastCall.raised)
        => /\ ~IsConnected(Conn)
           /\ mcp_session_id = 0
           /\ persistent_exit_stack = <<>>
           /\ \A aclose_ok \in BOOLEAN :
                 LET r == EstablishPersistentConnection(
                              Conn, [fail |-> "none", aclose_ok |-> aclose_ok])
                 IN ~r.raised /\ IsConnected(r.k) /\ ~r.reused

(***************************************************************************)
(* Properties of ask_question with memory.                                 *)
(***************************************************************************)
\* The arguments of the running call
Flags == <<maintain_history, use_memory, load_from_memory>>

\* The messages stored for the current session of the client
CurrentHistory == StoredHistory(MemState(Me))

\* C13: in ask_question with maintain_history, use_memory and
\* load_from_memory, the call reaches its first request, and the buffer sent
\* in it is the stored history of the client's current session, entry by
\* entry (role and content), followed by the current user utterance,
\* whatever the buffer held before; with nothing stored it is the utterance
\* alone.
C13_FirstRequestIsStoredHistory ==
    [][/\ (Flags' = <<TRUE, TRUE, TRUE>> /\ turns' > 0) => pc' # "error"
       /\ (pc = "save_user" /\ Flags = <<TRUE, TRUE, TRUE>>)
             => /\ pc' = "send"
                /\ Len(messages') = Len(CurrentHistory) + 1
                /\ \A i \in 1..Len(CurrentHistory) :
                      /\ messages'[i].role = CurrentHistory[i].role.value
                      /\ messages'[i].text = ContentStr(CurrentHistory[i].content)
                /\ messages'[Len(messages')] = QuestionEntry(adapter, question)]_vars

\* The messages the running call has persisted so far, as <<role, type>>
Persisted ==
    [i \in 1..(Len(CurrentHistory) - hist_len) |->
        <<CurrentHistory[hist_len + i].role.value,
          CurrentHistory[hist_len + i].message_type.value>>]

RECURSIVE DropToolResults(_)
DropToolResults(ks) ==
    IF ks # <<>> /\ Head(ks) = <<"user", "tool_result">>
    THEN DropToolResults(Tail(ks)) ELSE ks

\* ks is, for the rounds i.. of the running call, the assistant message of
\* the round followed, when the round was dispatched, by its tool results; a
\* reply without any content may go without an assistant message
RECURSIVE RoundsInOrder(_, _)
RoundsInOrder(ks, i) ==
    IF i > Len(replyLog) THEN ks = <<>>
    ELSE \/ /\ replyLog[i] = <<>>
            /\ RoundsInOrder(ks, i + 1)
         \/ /\ ks # <<>>
            /\ Head(ks) = <<"assistant", "text">>
            /\ IF i <= Len(dispatchLog)
               THEN /\ Tail(ks) # <<>>
                    /\ Head(Tail(ks)) = <<"user", "tool_result">>
                    /\ RoundsInOrder(DropToolResults(Tail(ks)), i + 1)
               ELSE RoundsInOrder(Tail(ks), i + 1)

\* What the running call has persisted is the user question followed by the
\* rounds in order
PersistedInTurnOrder ==
    /\ Persisted # <<>>
    /\ Head(Persisted) = <<"user", "text">>
    /\ CurrentHistory[hist_len + 1].content = StrContent(question)
    /\ RoundsInOrder(Tail(Persisted), 1)

\* C14: after every step of ask_question(maintain_history=true,
\* use_memory=true), the messages the call has added to the stored history of
\* the session are, in this order: the user question, then for each model
\* round the assistant content followed, when the round had tool calls, by
\* the tool results (role user, type tool_result).
C14_PersistedInTurnOrder ==
    [][(maintain_history /\ use_memory /\ pc' # pc
        /\ pc' \in {"send", "dispatch", "done"})
          => PersistedInTurnOrder']_vars

\* C15: ask_question with maintain_history=false and use_memory=true leaves
\* the buffer as it is at every step (nothing is loaded into it, nothing is
\* appended), and when it is done the current session holds, among the
\* messages the call has persisted, the user question, and as the last one
\* the final answer that the call returns.
C15_NoHistoryStillPersists ==
    [][(~maintain_history' /\ use_memory' /\ pc' # pc)
          => /\ messages' = messages
             /\ pc' # "error"
             /\ pc' = "done"
                   => /\ \E i \in 1..Len(Persisted') :
                            /\ Persisted'[i] = <<"user", "text">>
                            /\ CurrentHistory'[hist_len' + i].content
                                  = StrContent(question')
                      /\ Persisted'[Len(Persisted')] = <<"assistant", "text">>
                      /\ CurrentHistory'[Len(CurrentHistory')].content
                            = StrContent(returned')]_vars

\* C15 witness: such a call is done on a client whose buffer holds an
\* earlier conversation and whose session already held messages; it went
\* through a tool round, and the session has grown.
C15_Witness ==
    /\ ~maintain_history /\ use_memory /\ pc = "done"
    /\ messages # <<>> /\ messages = base
    /\ hist_len > 0
    /\ rounds = 1
    /\ Len(CurrentHistory) > hist_len + 1
    /\ CurrentHistory[Len(CurrentHistory)].content = StrContent(returned)

\* Every stored message of the current session was persisted by an
\* Anthropic client
PersistedByAnthropic ==
    /\ CurrentHistory # <<>>
    /\ \A i \in 1..Len(CurrentHistory) : CurrentHistory[i].provider = "anthropic"

\* C22: a conversation persisted by an Anthropic client is continued by a
\* client of any adapter class over the same store and memory_session_id:
\* its ask_question with load_from_memory does not fail on the load, its
\* buffer holds the stored messages in order with their roles and texts,
\* followed by the question, and the call reaches its first request.
C22_CrossProviderContinuity ==
    [][/\ (PersistedByAnthropic /\ Flags' = <<TRUE, TRUE, TRUE>> /\ turns' = turns + 1)
             => pc' = "save_user"
       /\ (PersistedByAnthropic /\ Flags = <<TRUE, TRUE, TRUE>> /\ pc = "save_user")
             => /\ pc' = "send"
                /\ Len(messages') = Len(CurrentHistory) + 1
                /\ \A i \in 1..Len(CurrentHistory) :
                      /\ messages'[i].role = CurrentHistory[i].role.value
                      /\ messages'[i].text = ContentStr(CurrentHistory[i].content)]_vars

\* The request of the running call raised: the call left the request
\* without a reply
SendRaised == pc = "send" /\ pc' # "send" /\ replyLog' = replyLog

\* C23: when the vendor SDK raises in a request, ask_question raises to its
\* caller, and no entry is appended to the buffer or persisted for that
\* request, with every adapter.
C23_SendErrorPropagates ==
    [][SendRaised => /\ pc' = "error"
                     /\ messages' = messages
                     /\ CurrentHistory' = CurrentHistory]_vars

\* How many of the messages the running call has persisted are its question
QuestionsPersisted ==
    Cardinality({i \in 1..Len(Persisted) :
                    /\ Persisted[i] = <<"user", "text">>
                    /\ CurrentHistory[hist_len + i].content = StrContent(question)})

\* C36: when a call of ask_question with use_memory returns, it has
\* persisted the user question exactly once in the current memory session,
\* with and without maintain_history.
C36_QuestionPersistedOnce ==
    [][(use_memory' /\ pc' # pc /\ pc' = "done") => QuestionsPersisted' = 1]_vars

\* C36 for maintain_history=true alone
C36_OnceWithHistory ==
    [][(use_memory' /\ maintain_history' /\ pc' # pc /\ pc' = "done")
          => QuestionsPersisted' = 1]_vars

\* s is the beginning of t
IsPrefix(s, t) == Len(s) <= Len(t) /\ SubSeq(t, 1, Len(s)) = s

\* C35: memory is append-only while ask_question runs: in every step of a
\* call, also one that fails or is cancelled where it is suspended, the
\* stored history of every session keeps the messages it held, in their
\* order and unchanged, and can only get longer.
C35_AppendOnly ==
    [][\A sid \in KnownSessionIds :
          IsPrefix(History(sid),
                   GetConversationHistory(store_kind', store', sid, 0))]_vars

\* C35 witness: a call with memory was cancelled or failed after it had
\* persisted its question and a round, in a session that already held
\* messages.
C35_Witness ==
    /\ pc = "error" /\ use_memory /\ maintain_history
    /\ hist_len > 0
    /\ Len(CurrentHistory) > hist_len + 1
    /\ CurrentHistory[hist_len + 1].content = StrContent(question)

(***************************************************************************)
(* Claims about the session manager.                                       *)
(***************************************************************************)
\* The history of session sid in the store st
HistoryIn(st, sid) == GetConversationHistory(store_kind, st, sid, 0)

\* The stored history of session sid
HistoryOf(sid) == HistoryIn(store, sid)

\* role, content and message_type of the messages of a history
RoleContentType(h) ==
    [i \in 1..Len(h) |-> <<h[i].role, h[i].content, h[i].message_type>>]

\* The step is a clone_session call that returns
CloneReturns == Len(clones') = Len(clones) + 1

\* The step is a memory_save_message of the client
SaveStep == uuid_count' = uuid_count + 1 /\ clones' = clones

\* C17: when clone_session(src) returns, the new session has an id other
\* than src, its history has the length and the sequence of role, content
\* and message_type that the history of src has at the time of cloning,
\* every cloned message has a message_id that no source message has, and the
\* history of src is unchanged; a message saved afterwards changes the
\* history of the current session only, so it does not appear in the other
\* of the two sessions.
C17_CloneCopiesAndIsolates ==
    [][/\ CloneReturns
          => LET k == clones'[Len(clones')]
             IN /\ k.new # k.source
                /\ GetSession(store_kind, store, k.new) = None
                /\ GetSession(store_kind, store', k.new) # None
                /\ RoleContentType(HistoryIn(store', k.new))
                      = RoleContentType(HistoryOf(k.source))
                /\ MessageIds(HistoryIn(store', k.new)) \cap MessageIds(HistoryOf(k.source))
                      = {}
                /\ Cardinality(MessageIds(HistoryIn(store', k.new)))
                      = Len(HistoryOf(k.source))
                /\ HistoryIn(store', k.source) = HistoryOf(k.source)
       /\ SaveStep
          => \A i \in 1..Len(clones) :
                \A sid \in {clones[i].source, clones[i].new} :
                   sid # memory_session_id'[Me]
                      => HistoryIn(store', sid) = HistoryOf(sid)]_vars

\* C17 witness: a session with two messages of different role, content and
\* message type was cloned under a generated id, and a message was saved to
\* the source afterwards: the clone holds the two messages, the source three.
C17_Witness ==
    /\ clones # <<>>
    /\ clones[1].new.literal = ""
    /\ Len(HistoryOf(clones[1].new)) = 2
    /\ HistoryOf(clones[1].new)[1].role # HistoryOf(clones[1].new)[2].role
    /\ Len(HistoryOf(clones[1].source)) = 3
    /\ RoleContentType(HistoryOf(clones[1].new))
          = SubSeq(RoleContentType(HistoryOf(clones[1].source)), 1, 2)

\* The step is a call of generate_session_id that returns
GenerateReturns == Len(generated') = Len(generated) + 1

\* C18: whatever the timestamp and the random part are, the id that
\* generate_session_id of one SessionManager returns is none of the ids it
\* has returned before and is not the id of an existing session (the search
\* for a free suffix _1, _2, ... ends, so the call returns).
C18_GeneratedIdIsNew ==
    [][GenerateReturns
          => LET id == generated'[Len(generated')]
             IN /\ \A i \in 1..Len(generated) : generated[i] # id
                /\ GetSession(store_kind, store, id) = None]_vars

(***************************************************************************)
(* Claims about the construction of clients.                               *)
(***************************************************************************)
\* The step constructs client c
Constructs(c) == ~Constructed(c) /\ Constructed(c)'

\* The step creates the session record of the session of client c
CreatesSessionOf(c) ==
    /\ memory_session_id'[c] # None
    /\ GetSession(store_kind, store, memory_session_id'[c]) = None
    /\ GetSession(store_kind, store', memory_session_id'[c]) # None

\* C21: session creation is lazy for the ordinary client and eager for the
\* persistent client.  A step of the ordinary client that creates the
\* record of its session also writes a message to that session, and when
\* the persistent client is constructed its memory session id is not None
\* and the store holds the record of that session.
C21_LazyOrEagerCreation ==
    [][/\ (Constructed(Ordinary) /\ CreatesSessionOf(Ordinary)
             /\ session_initialized'[Ordinary] # session_initialized[Ordinary])
          => HistoryIn(store', memory_session_id'[Ordinary]) # <<>>
       /\ Constructs(Persistent)
          => /\ memory_session_id'[Persistent] # None
             /\ GetSession(store_kind, store',
                           memory_session_id'[Persistent]) # None]_vars
(***************************************************************************)
(* Properties of the validation of questions.                              *)
(***************************************************************************)
\* An entry point was called with an invalid question
InvalidQuestion(q) ==
    \/ ~q.is_str
    \/ StripRuns(q.runs) = <<>>
    \/ StrLen(q.runs) > MaxQuestionLength
    \/ CountNul(q.runs) > 0

\* C24: every entry point that takes a question (ask_single_question,
\* ask_question, process_query), of every adapter, raises on an invalid
\* question (not a string, empty after trimming, longer than 100000
\* characters, or with a null byte), and nothing is put into the buffer or
\* sent before.
C24_InvalidQuestionRejected ==
    [][(turns' = turns + 1 /\ InvalidQuestion(arg'))
          => /\ out'.raised
             /\ pc' = "error"
             /\ messages' = messages]_vars

\* The question that was validated and its length
Validated == method # "" /\ Validates(adapter, method) /\ arg.is_str

\* A str that passes every check but the one of the length
OtherwiseValid(runs) == StripRuns(runs) # <<>> /\ CountNul(runs) = 0

\* The statement on the length of the question as it is passed
C25_LengthAsPassed ==
    Validated =>
        /\ (OtherwiseValid(arg.runs) /\ StrLen(arg.runs) = MaxQuestionLength)
              => ~out.raised
        /\ StrLen(arg.runs) > MaxQuestionLength => out.raised

\* C25: the validation accepts an otherwise valid question whose length
\* after the trimming of surrounding whitespace is exactly 100000
\* characters and rejects every question whose length after the trimming
\* is 100001 characters or more.
C25_LengthLimit ==
    Validated =>
        /\ (OtherwiseValid(arg.runs) /\ StrLen(StripRuns(arg.runs)) = MaxQuestionLength)
              => ~out.raised
        /\ StrLen(StripRuns(arg.runs)) > MaxQuestionLength => out.raised

\* C25: a question of exactly 100000 characters after the trimming was
\* accepted, though it was passed with more
C25_Witness ==
    /\ Validated
    /\ StrLen(StripRuns(arg.runs)) = MaxQuestionLength
    /\ StrLen(arg.runs) > MaxQuestionLength
    /\ ~out.raised
    /\ pc = "send"
(***************************************************************************)
(* Properties of the provider detection.                                   *)
(***************************************************************************)
Detected == method = "detect_provider"

\* The providers a table gives for s: those with a pattern s starts with
WithPrefix(table, s) ==
    {table[i][1] : i \in {j \in 1..Len(table) :
                            \E p \in table[j][2] : StartsWith(s, p)}}

\* The providers each source gives for a configuration: the explicit field
\* when it names a provider, the model-name prefix, the API-key prefix, a
\* provider name in the serialized configuration
Source(k, config) ==
    CASE k = 1 -> IF config.provider = <<>> THEN {}
                  ELSE {LLMProvider[i] : i \in 1..Len(LLMProvider)}
                       \cap {Lower(config.provider)[1]}
      [] k = 2 -> WithPrefix(MODEL_PATTERNS, Lower(config.LLM_MODEL))
      [] k = 3 -> WithPrefix(API_KEY_PATTERNS, config.LLM_API_KEY)
      [] OTHER -> {n \in {"anthropic", "openai", "gemini"} :
                     Contains(Lower(ConfigStr(config)), n)}

\* C26: detect_provider takes its sources in the order explicit provider
\* field, model-name prefix, API-key prefix, provider name in the
\* serialized configuration; it returns a provider of the first source that
\* gives one and raises only when no source gives one.
C26_DetectionOrder ==
    Detected =>
        IF \A k \in 1..4 : Source(k, arg) = {}
        THEN out.raised
        ELSE /\ ~out.raised
             /\ \E k \in 1..4 : /\ \A j \in 1..(k - 1) : Source(j, arg) = {}
                                /\ out.value \in Source(k, arg)

\* Detection fell to the API key: no provider field and no model-name match
FellToApiKey == Detected /\ arg.provider = <<>> /\ Source(2, arg) = {}

\* C27: when detection falls to the API key, a key that starts with
\* "sk-ant-" gives Anthropic, another key that starts with "sk-" or "sk_"
\* gives OpenAI, and a key that starts with "AI" gives Gemini.
C27_ApiKeyPrefixes ==
    FellToApiKey =>
        /\ StartsWith(arg.LLM_API_KEY, <<"sk-", "ant-">>)
              => out = Returns("anthropic")
        /\ (/\ ~StartsWith(arg.LLM_API_KEY, <<"sk-", "ant-">>)
            /\ \/ StartsWith(arg.LLM_API_KEY, <<"sk-">>)
               \/ StartsWith(arg.LLM_API_KEY, <<"sk_">>))
              => out = Returns("openai")
        /\ StartsWith(arg.LLM_API_KEY, <<"AI">>) => out = Returns("gemini")

\* A client of an adapter class opened a transport
TransportOpened == method = "connection_context" /\ arg.class \in Adapters

\* C28: every transport a client opens carries the header
\* X-Tool-Categories, with the value "financial,openbb" when the
\* client_context of the tool-server configuration has the type "openbb"
\* and "financial" otherwise.
C28_ToolCategoriesHeader ==
    TransportOpened =>
        out = {[name |-> "X-Tool-Categories",
                value |-> IF arg.server_config.client_context.type = "openbb"
                          THEN <<"financial", ",", "openbb">>
                          ELSE <<"financial">>]}
(***************************************************************************)
(* Properties of the queries of the stores.                                *)
(***************************************************************************)
\* The messages the store returns for some session
StoredMessages ==
    UNION {{MessagesOf(store_kind, store, sid)[i] :
               i \in 1..Len(MessagesOf(store_kind, store, sid))} :
           sid \in DOMAIN store.messages}

\* C29: search_messages(q) returns only messages of the store whose
\* stringified content contains q when case is ignored, and it returns them
\* sorted by timestamp, latest first, with both stores and every limit.
C29_SearchMatchesSorted ==
    method = "search_messages" =>
        /\ \A i \in 1..Len(out) :
              /\ out[i] \in StoredMessages
              /\ In(LowerText(arg.query), LowerText(ContentStr(out[i].content)))
        /\ \A i \in 1..Len(out) : \A j \in i..Len(out) :
              out[i].timestamp >= out[j].timestamp

\* C29: a search returned two messages saved at different times, found by a
\* query in another case than the contents
C29_Witness ==
    /\ method = "search_messages"
    /\ Len(out) = 2
    /\ out[1].timestamp > out[2].timestamp
    /\ ~In(arg.query, ContentStr(out[1].content))
    /\ arg.limit > 1

\* The n last messages of s, all of them when there are fewer
MostRecent(s, n) == SubSeq(s, IF Len(s) > n THEN Len(s) - n + 1 ELSE 1, Len(s))

\* C30: get_conversation_history(s, limit=n) returns at most n messages,
\* the n most recently saved ones of s that pass the message_types and
\* before_message_id filters, oldest first; for a session that does not
\* exist it returns the empty list.
C30_HistoryLimit ==
    method = "get_conversation_history" =>
        /\ (arg.limit # <<>> /\ arg.limit[1] >= 0)
              => /\ Len(out) <= arg.limit[1]
                 /\ out = MostRecent(Filtered(MessagesOf(store_kind, store,
                                                         arg.session_id),
                                              arg.before_message_id,
                                              arg.message_types),
                                     arg.limit[1])
        /\ arg.session_id \notin DOMAIN store.messages => out = <<>>
(***************************************************************************)
(* Properties of the length and of the trimming of the buffer.             *)
(***************************************************************************)
\* C39: when ask_question(maintain_history=true) puts the user utterance of
\* the turn into the buffer and goes to its first request, the buffer that
\* precedes the utterance (kept from earlier turns or loaded from memory)
\* has at most max_history_length entries; the requests of the turn all
\* carry this part.
C39_HistoryBounded ==
    [][(pc = "save_user" /\ maintain_history /\ pc' = "send")
          => /\ Len(messages') = Len(messages) + 1
             /\ messages'[Len(messages')] = QuestionEntry(adapter, question)
             /\ Len(messages) <= max_history_length]_vars

\* C39 for the calls that load nothing
C39_BoundedWithoutLoad ==
    [][(pc = "save_user" /\ maintain_history /\ pc' = "send"
        /\ ~(use_memory /\ load_from_memory))
          => Len(messages) <= max_history_length]_vars

\* The entry i of the buffer holds tool results and the entry before it
\* does not hold the tool uses they answer
Orphaned(buf, i) ==
    /\ buf[i].kind = "tool_result"
    /\ \/ i = 1
       \/ \E k \in 1..Len(buf[i].results) :
             \A j \in 1..Len(ToolUses(buf[i - 1].blocks)) :
                ToolUses(buf[i - 1].blocks)[j].id # buf[i].results[k].tool_use_id

\* C40: the buffer of the Anthropic client never holds a user message with
\* tool results whose assistant message with the tool uses is not the entry
\* before it: trimming does not cut a tool exchange.
C40_ToolExchangesIntact ==
    adapter = "anthropic" => \A i \in 1..Len(messages) : ~Orphaned(messages, i)
(***************************************************************************)
(* Properties of the handling of stringified tool calls.                   *)
(***************************************************************************)
\* Tool calls and their str() as a list of one block
StringifiedCalls ==
    {[id |-> "t9", name |-> "fetch", input |-> "symbol=V",
      text |-> StringifiedToolUse],
     [id |-> "t9", name |-> "fetch", input |-> "q=f(x)",
      text |-> StringifiedToolUseParen],
     [id |-> "t9", name |-> "fetch", input |-> "q=it's",
      text |-> StringifiedToolUseQuote]}

Processed == method = "_process_content_blocks_for_tool_use"

\* C31: a text block of an Anthropic response that holds a stringified tool
\* call is replaced by the tool-use block with the same id, name and input
\* before the test for tool uses, so that the call is among the tool uses
\* that are dispatched.
C31_StringifiedCallReplaced ==
    Processed =>
        \A i \in 1..Len(arg) : \A c \in StringifiedCalls :
            arg[i] = TextBlock(c.text)
               => /\ ~out.raised
                  /\ out.value.buf[1].blocks[i]
                        = ToolUseBlock("tool_use", c.id, c.name, c.input)
                  /\ \E k \in 1..Len(out.value.uses) :
                        out.value.uses[k] = out.value.buf[1].blocks[i]

\* A text block with "ToolUseBlock(" that gives no tool call
Unparsable(b) ==
    /\ b.type = "text"
    /\ ContainsToolUseBlock(b.text)
    /\ \/ ~ParseToolUseBlockString(b.text).found
       \/ ToolUseBlockRaises(ParseToolUseBlockString(b.text))

\* C34: a text block that contains "ToolUseBlock(" and cannot be parsed
\* into a tool call is handled as plain text: nothing is raised, the block
\* stays a text block in the buffer, its text is part of the answer, and no
\* tool use comes from it.
C34_UnparsableIsPlainText ==
    Processed =>
        \A i \in 1..Len(arg) :
            Unparsable(arg[i])
               => /\ ~out.raised
                  /\ out.value.buf[1].blocks[i] = arg[i]
                  /\ In(arg[i].text, out.value.text)
                  /\ Len(out.value.uses)
                        <= Cardinality({j \in 1..Len(arg) : ~Unparsable(arg[j])})
(***************************************************************************)
(* Properties of concurrent create_session calls.                          *)
(***************************************************************************)
\* The task t has returned the session it created
Created(t) == t \in DOMAIN tasks /\ tasks[t].result = "created"

\* C33: of the create_session calls for one session id with force_new=False
\* on one session manager, at most one returns a session, the others raise,
\* and the record the store holds is the one the winner created.
C33_OneCreateWins ==
    \A t1 \in TaskIds : \A t2 \in TaskIds \ {t1} :
       (/\ t1 \in DOMAIN tasks /\ t2 \in DOMAIN tasks
        /\ tasks[t1].session_id = tasks[t2].session_id
        /\ ~tasks[t1].force_new /\ ~tasks[t2].force_new
        /\ Created(t1) /\ tasks[t2].pc = "done")
       => /\ tasks[t2].result \in {"ValueError", "RuntimeError"}
          /\ GetSession(store_kind, store, tasks[t1].session_id)
                = NewSession(tasks[t1])
(***************************************************************************)
(* Properties of the search of the memory facade.                          *)
(***************************************************************************)
\* The user the session of message m belongs to, NoUser when the store has
\* no record of the session
OwnerOf(m) ==
    LET s == GetSession(store_kind, store, m.session_id)
    IN IF s = None THEN NoUser ELSE s.user_id

\* C37: memory_search_conversations of a client returns no message of a
\* session that belongs to another user than the client's, and with
\* all_user_sessions=False only messages of the client's current memory
\* session, whatever the client's session id and user_id are.
C37_SearchStaysWithUser ==
    method = "memory_search_conversations" =>
        \A i \in 1..Len(out) :
            /\ OwnerOf(out[i]) \in {NoUser, user_id[arg.client]}
            /\ ~arg.all_user_sessions
                  => out[i].session_id = memory_session_id[arg.client]
(***************************************************************************)
(* Properties of the two stores side by side.                              *)
(***************************************************************************)
\* C38: after the same sequence of store calls (save_session, save_message,
\* update_session_activity, delete_session, get_session,
\* get_conversation_history, search_messages, get_user_sessions) on an
\* in-memory store and on a file store, each call returns the same value
\* from both, message_count and the hits of a search in a session without a
\* record included.
C38_StoresEquivalent ==
    method # "" => out.memory.returned = out.file.returned

\* C38 for the calls other than get_session and search_messages, on string
\* contents
C38_EquivalentElsewhere ==
    (/\ method \notin {"", "get_session", "search_messages", "get_user_sessions"}
     /\ \A i \in 1..Len(arg) : arg[i].content = <<>> \/ arg[i].content.type = "str")
        => out.memory.returned = out.file.returned

====
